---- MODULE Spec2Model ----
(***************************************************************************)
(* Differential row-reordering engine of the activities sheet-data         *)
(* endpoint (UserTitleDataView.patch) together with the row store it       *)
(* writes to: the ActivitySheetRow table with its unique constraint on     *)
(* (sheet, row_order), the ActivitySheet.row_count aggregate and the       *)
(* post_save / post_delete signal handlers that maintain it.               *)
(*                                                                         *)
(* Every storage statement of the PATCH handler is one step, so that the   *)
(* states between two writes are states of the model.                      *)
(***************************************************************************)
EXTENDS Integers, Sequences, FiniteSets, TLC

\* ---------------------------------------------------------------- bounds
\* number of row ids the store hands out in one behaviour
MaxId == 3
\* largest insert_at_order a request carries (positions are 1-indexed)
MaxPos == 3
\* longest list of one operation kind in a request
MaxList == 2
\* largest number of items in one request, all four lists together
MaxBatch == 3

\* number of row ids handed out in a behaviour of the content specification
MaxContentId == 2
\* largest number of items in one of its requests
MaxContent == 2

\* number of row ids handed out in a behaviour of two requests at once
MaxTxnId == 3
\* longest deletions list and longest appends list of their batches
MaxTxnList == 1

\* longest rows list of a bulk-create or full-replace request, and longest
\* row_ids and row_numbers lists of a bulk-delete request
MaxBulk == 2
\* largest row_number a bulk request names
MaxRowNumber == 3

\* largest id of a sheet created in a behaviour
MaxSheetId == 5

\* the sheets of the store: sheet 1 and another sheet
Sheets == {1, 2}
\* the sheet ids PATCH requests name: the sheets of the store, an inactive
\* sheet (3) and an id no sheet has (4)
PatchSheets == {1, 2, 3, 4}
\* the users: the one who sends the PATCH requests, and another one
RequestUsers == {"u1"}
\* the title ids PATCH requests name: the published templates
TitleIds == {1, 2}
\* row payloads a request carries for new rows
Data == {"a", "b"}
\* payload of an update item
UpdateData == {"u"}
\* ids a request may name: assigned, retired and never assigned ones
RequestIds == 1..MaxId

VARIABLES
    rows,               \* table ActivitySheetRow: set of row records
    row_count,          \* ActivitySheet.row_count, per sheet
    nextId,             \* the store's id sequence for ActivitySheetRow
    used_ids,           \* every id the store has handed out so far
    pc,                 \* position of the request being handled
    request,            \* the request: its user, the title_id of its URL, its data
    sheet_id,           \* request.data.get('sheet_id')
    operations,         \* the parsed operations of the request
    insertions_sorted,  \* insertions still to apply, ascending insert_at_order
    rows_to_shift,      \* rows of the current insertion still to shift
    max_order,          \* Max(row_order) read by the append step
    app_idx,            \* appended rows created so far
    needs_update,       \* renumbering writes still to issue
    updated_count,
    inserted_count,
    deleted_count,
    appended_count,
    errors,             \* the errors list of the response
    integrity_error,    \* step whose write the unique constraint rejected
    response,           \* body of the response once the request returned
    pre,                \* the store as the open transaction found it
    txn,                \* two requests handled at once, each in its transaction
    catalog             \* tables ActivityTemplate and ActivitySheet (the template
                        \* of each sheet) and the template requests in flight

dbvars == <<rows, row_count, nextId, used_ids>>
locals == <<request, sheet_id, operations, insertions_sorted, rows_to_shift, max_order,
            app_idx, needs_update>>
results == <<updated_count, inserted_count, deleted_count, appended_count,
             errors, integrity_error, response>>
vars == <<rows, row_count, nextId, used_ids, pc, request, sheet_id, operations,
          insertions_sorted, rows_to_shift, max_order, app_idx, needs_update,
          updated_count, inserted_count, deleted_count, appended_count,
          errors, integrity_error, response, pre, txn, catalog>>

\* ------------------------------------------------------------ the store
Range(s) == {s[i] : i \in DOMAIN s}

Ids(R) == {r.id : r \in R}

\* sheet.rows of a store R
SheetRows(R, s) == {r \in R : r.sheet = s}

\* fault variant: the rows of every sheet counted
Count_AllSheets(R, s) == Cardinality(R)

\* sheet.rows.count()
Count(R, s) == Cardinality(SheetRows(R, s))

Positions(R, s) == {r.row_order : r \in SheetRows(R, s)}

\* UniqueConstraint(fields=['sheet', 'row_order']): would giving position
\* pos to row id (0 for a new row) of sheet s be rejected
Conflicts(R, s, id, pos) ==
    \E r \in SheetRows(R, s) : r.row_order = pos /\ r.id # id

\* the empty dict {} of a JSON column
EmptyDict == "{}"
\* default of the height column and of the handler's .get('height', 32)
DefaultHeight == 32

\* item.get(key, default)
Get(item, key, default) == IF key \in DOMAIN item THEN item[key] ELSE default

\* a new ActivitySheetRow with the content of a request item
NewRow(id, s, pos, num, item) ==
    [id |-> id, sheet |-> s, row_order |-> pos, row_number |-> num,
     data |-> Get(item, "data", EmptyDict),
     styles |-> Get(item, "styles", EmptyDict),
     height |-> Get(item, "height", DefaultHeight)]

\* UPDATE of the row_order column of row id alone
SetOrder(R, id, pos) ==
    {IF r.id = id THEN [r EXCEPT !.row_order = pos] ELSE r : r \in R}

\* UPDATE of row_order and row_number of row id
SetOrderAndNumber(R, id, pos) ==
    {IF r.id = id THEN [r EXCEPT !.row_order = pos, !.row_number = pos] ELSE r : r \in R}

\* a set of rows as the list order_by('row_order') returns it
RECURSIVE OrderByRowOrder(_)
OrderByRowOrder(S) ==
    IF S = {} THEN <<>>
    ELSE LET first == CHOOSE r \in S : \A q \in S : r.row_order <= q.row_order
         IN  <<first>> \o OrderByRowOrder(S \ {first})

\* a list reversed: order_by('-row_order')
Reverse(s) == [i \in 1..Len(s) |-> s[Len(s) + 1 - i]]

\* the payloads of sheet s in display order
Arrangement(R, s) ==
    LET l == OrderByRowOrder(SheetRows(R, s)) IN [i \in 1..Len(l) |-> l[i].data]

\* fault variant: the number of rows taken for the largest position
MaxOrder_Count(R, s) == Count(R, s)

\* aggregate(Max('row_order'))['max_order'] or 0
MaxOrder(R, s) ==
    IF SheetRows(R, s) = {} THEN 0
    ELSE CHOOSE m \in Positions(R, s) : \A p \in Positions(R, s) : p <= m

\* fault variant: the receivers left out
SignalRowCount_Forgotten(rc, R, s) == rc

\* post_save(created) and post_delete receivers: sheet.row_count = rows.count()
SignalRowCount(rc, R, s) == [rc EXCEPT ![s] = Count(R, s)]

\* -------------------------------------------------- the PATCH handler
NoResponse == [status |-> 0]
NoRequest == [user |-> "", title_id |-> 0, data |-> <<>>]

\* table ActivityTemplate: the published templates that are not deleted
PublishedTemplates == {1, 2}

\* table ActivitySheet: sheets 1 and 2 are those of the store, owned by two
\* users; sheet 3 is inactive and holds no rows; all belong to template 1
SheetTable ==
    [s \in {1, 2, 3} |-> [template |-> 1,
                          owner |-> IF s = 2 THEN "u2" ELSE "u1",
                          is_active |-> s # 3]]

\* fault variant: the owner of the sheet is not looked at
SheetFound_AnyOwner(title_id, user, id) ==
    /\ id \in DOMAIN SheetTable
    /\ SheetTable[id].template = title_id
    /\ SheetTable[id].is_active

\* get_object_or_404(ActivitySheet, pk=sheet_id, template=template,
\*                   owner=request.user, is_active=True) finds a sheet
SheetFound(title_id, user, id) ==
    /\ id \in DOMAIN SheetTable
    /\ SheetTable[id].template = title_id
    /\ SheetTable[id].owner = user
    /\ SheetTable[id].is_active

\* the checks ahead of the parsing: the status of the error response they
\* return, 0 when they pass
FatalStatus(req) ==
    IF "sheet_id" \notin DOMAIN req.data THEN 400
    ELSE IF req.title_id \notin PublishedTemplates THEN 404
    ELSE IF ~SheetFound(req.title_id, req.user, req.data.sheet_id) THEN 404
    ELSE 0

\* fault variant: an item is placed ahead of the items of equal position
InsertStable_TiesFirst(sorted, x) ==
    LET k == Cardinality({i \in 1..Len(sorted) : sorted[i].insert_at_order < x.insert_at_order})
    IN  SubSeq(sorted, 1, k) \o <<x>> \o SubSeq(sorted, k + 1, Len(sorted))

\* sorted(insertions, key=insert_at_order): stable
InsertStable(sorted, x) ==
    LET k == Cardinality({i \in 1..Len(sorted) : sorted[i].insert_at_order <= x.insert_at_order})
    IN  SubSeq(sorted, 1, k) \o <<x>> \o SubSeq(sorted, k + 1, Len(sorted))

\* fault variant: the insertions taken in input order
SortInsertions_Unsorted(ins) == ins

RECURSIVE SortInsertions(_)
SortInsertions(ins) ==
    IF ins = <<>> THEN <<>>
    ELSE InsertStable(SortInsertions(SubSeq(ins, 1, Len(ins) - 1)), ins[Len(ins)])

\* fault variant: the insert position taken as 0-indexed
InsertAt_ZeroBased(insert_data) == insert_data.insert_at_order + 1

\* fault variant: every insertion goes to the top of the sheet
InsertAt_First(insert_data) == 1

\* insert_data.get('insert_at_order', 1)
InsertAt(insert_data) == insert_data.insert_at_order

\* fault variant: max_order left out
NewOrder_IndexOnly(max, idx) == idx

\* new_order = max_order + idx
NewOrder(max, idx) == max + idx

\* fault variant: the largest living id plus one
NewId_MaxPlusOne(nid, R) ==
    IF R = {} THEN 1 ELSE (CHOOSE m \in Ids(R) : \A i \in Ids(R) : i <= m) + 1

\* the id the store gives a new row: the next value of its sequence
NewId(nid, R) == nid

\* fault variant: the rows shifted first to last
RowsToShift_Ascending(R, s, insert_at) ==
    OrderByRowOrder({r \in SheetRows(R, s) : r.row_order >= insert_at})

\* sheet.rows.filter(row_order__gte=insert_at).order_by('-row_order')
RowsToShift(R, s, insert_at) ==
    Reverse(OrderByRowOrder({r \in SheetRows(R, s) : r.row_order >= insert_at}))

\* fault variant: no renumbering pass
NeedsUpdate_Skipped(R, s) == <<>>

\* fault variant: the rows numbered last to first
NeedsUpdate_Reversed(R, s) ==
    LET all_rows == OrderByRowOrder(SheetRows(R, s))
        numbered == [i \in 1..Len(all_rows) |->
                        [id |-> all_rows[i].id, idx |-> Len(all_rows) + 1 - i,
                         row_order |-> all_rows[i].row_order]]
    IN  SelectSeq(numbered, LAMBDA e : e.row_order # e.idx)

\* the rows the renumbering pass has to write, in the order it meets them,
\* each with its new position
NeedsUpdate(R, s) ==
    LET all_rows == OrderByRowOrder(SheetRows(R, s))
        numbered == [i \in 1..Len(all_rows) |->
                        [id |-> all_rows[i].id, idx |-> i, row_order |-> all_rows[i].row_order]]
    IN  SelectSeq(numbered, LAMBDA e : e.row_order # e.idx)

\* the enumerations of a set: the orders a loop over a Python set may take
Orderings(S) == {f \in [1..Cardinality(S) -> S] : Range(f) = S}

\* fault variant: the ids looked up in the whole table, not in the sheet
ExistingIds_AnySheet(R, s, deletions) == {r.id : r \in {q \in R : q.id \in Range(deletions)}}

\* fault variant: no id of deletions is found
ExistingIds_None(R, s, deletions) == {}

\* existing_ids of the deletion step
ExistingIds(R, s, deletions) == {r.id : r \in {q \in SheetRows(R, s) : q.id \in Range(deletions)}}

\* fault variant: an item replaces the whole content of its row, a field it
\* does not carry falling back to the default
UpdateRow_Replace(row, update_data) ==
    [row EXCEPT !.data = Get(update_data, "data", EmptyDict),
                !.styles = Get(update_data, "styles", EmptyDict),
                !.height = Get(update_data, "height", DefaultHeight)]

\* one update item on its row: `if 'data' in update_data: row.data = ...`,
\* the same for styles and height
UpdateRow(row, update_data) ==
    [row EXCEPT !.data = Get(update_data, "data", row.data),
                !.styles = Get(update_data, "styles", row.styles),
                !.height = Get(update_data, "height", row.height)]

\* the update loop and its bulk_update: items are applied in list order to
\* the rows of the sheet they name, only the content columns are written
RECURSIVE ApplyUpdates(_, _, _)
ApplyUpdates(R, s, updates) ==
    IF updates = <<>> THEN R
    ELSE LET done == ApplyUpdates(R, s, SubSeq(updates, 1, Len(updates) - 1))
             u == updates[Len(updates)]
         IN  {IF r.sheet = s /\ r.id = u.id THEN UpdateRow(r, u) ELSE r : r \in done}

\* the update items whose id is not a row of the sheet, in list order
UpdateErrors(R, s, updates) ==
    LET found == {r.id : r \in SheetRows(R, s)}
        missing == SelectSeq(updates, LAMBDA u : u.id \notin found)
    IN  [i \in 1..Len(missing) |-> [id |-> missing[i].id, error |-> "Row not found for update"]]

\* fault variant: every update item counted
UpdatedCount_All(R, s, updates) == Len(updates)

UpdatedCount(R, s, updates) ==
    LET found == {r.id : r \in SheetRows(R, s)}
    IN  Len(SelectSeq(updates, LAMBDA u : u.id \in found))

\* the `if deletions:` ... `if appends:` guards: the step after a phase
StartAppends(ops) == IF ops.appends # <<>> THEN "appends" ELSE "renumber"
StartUpdates(ops) == IF ops.updates # <<>> THEN "updates" ELSE StartAppends(ops)
StartInsertions(ops) == IF ops.insertions # <<>> THEN "insertions" ELSE StartUpdates(ops)
\* fault variant: the batch starts with the updates
StartDeletions_UpdatesFirst(ops) == StartUpdates(ops)

StartDeletions(ops) == IF ops.deletions # <<>> THEN "deletions" ELSE StartInsertions(ops)

\* lists of length n over a set
Lists(S, n) == [1..n -> S]

InsertionItems == [insert_at_order : 1..MaxPos, data : Data]
UpdateItems == [id : RequestIds, data : UpdateData]
AppendItems == [data : Data]

\* a legacy updated_rows item as an update item: the fields it does not
\* carry are filled in
LegacyUpdate(row_data) ==
    [id |-> row_data.id,
     data |-> Get(row_data, "data", EmptyDict),
     styles |-> Get(row_data, "styles", EmptyDict),
     height |-> Get(row_data, "height", DefaultHeight)]

\* a legacy new_rows item as an append item
LegacyAppend(row_data) ==
    [data |-> Get(row_data, "data", EmptyDict),
     styles |-> Get(row_data, "styles", EmptyDict),
     height |-> Get(row_data, "height", DefaultHeight)]

\* fault variant: the positions looked up as 0-indexed
RowsAtPositions_ZeroBased(R, s, numbers) ==
    LET found == OrderByRowOrder({r \in SheetRows(R, s) : r.row_order - 1 \in Range(numbers)})
    IN  [i \in 1..Len(found) |-> found[i].id]

\* [r.id for r in sheet.rows.filter(row_order__in=deleted_row_numbers)]
RowsAtPositions(R, s, numbers) ==
    LET found == OrderByRowOrder({r \in SheetRows(R, s) : r.row_order \in Range(numbers)})
    IN  [i \in 1..Len(found) |-> found[i].id]

\* fault variant: new_rows taken for insertions at the head of the sheet
LegacyOperations_Inserting(R, s, data) ==
    [updates |-> [i \in DOMAIN Get(data, "updated_rows", <<>>) |->
                    LegacyUpdate(data.updated_rows[i])],
     insertions |-> [i \in DOMAIN Get(data, "new_rows", <<>>) |->
                       [insert_at_order |-> 1] @@ LegacyAppend(data.new_rows[i])],
     deletions |-> Get(data, "deleted_row_ids", <<>>)
                     \o RowsAtPositions(R, s, Get(data, "deleted_row_numbers", <<>>)),
     appends |-> <<>>]

\* the backward-compatible format converted to the four lists
LegacyOperations(R, s, data) ==
    [updates |-> [i \in DOMAIN Get(data, "updated_rows", <<>>) |->
                    LegacyUpdate(data.updated_rows[i])],
     insertions |-> <<>>,
     deletions |-> Get(data, "deleted_row_ids", <<>>)
                     \o RowsAtPositions(R, s, Get(data, "deleted_row_numbers", <<>>)),
     appends |-> [i \in DOMAIN Get(data, "new_rows", <<>>) |->
                    LegacyAppend(data.new_rows[i])]]

\* the parsing of request.data: the operations of the new format, or the
\* backward-compatible keys when there is no operations key
ParseRequest(R, s, data) ==
    IF "operations" \in DOMAIN data THEN data.operations
    ELSE LegacyOperations(R, s, data)

\* the content fields an item of a request may carry, and their values
ContentFields ==
    {[data |-> "u"], [styles |-> "s"], [height |-> 40],
     [data |-> "u", styles |-> "s", height |-> 40]}
ContentIds == 1..MaxContentId
ContentUpdateItems == {[id |-> i] @@ f : i \in ContentIds, f \in ContentFields}
ContentAppendItems == {[data |-> "a"], [data |-> "a", styles |-> "s", height |-> 40]}

NoOperations == [updates |-> <<>>, insertions |-> <<>>, deletions |-> <<>>, appends |-> <<>>]
NoTransaction == [rows |-> {}, row_count |-> [s \in Sheets |-> 0], used_ids |-> {}, nextId |-> 1]

\* the two requests in flight
Procs == {1, 2}

\* a request that is not being handled
NoBatch ==
    [pc |-> "idle", sheet_id |-> 0, operations |-> NoOperations,
     deleted |-> {}, written |-> {}, sheet_written |-> FALSE, row_count |-> 0,
     max_order |-> 0, app_idx |-> 0, needs_update |-> <<>>,
     integrity_error |-> "none", began |-> {}]

\* no destroy request, no sheet-creation request in flight
NoDestroy == [pc |-> "idle", template |-> 0, collected |-> {}]
NoCreate == [pc |-> "idle", template |-> 0]

\* the templates and sheets the behaviour starts with: the published
\* templates, and the sheets of SheetTable with their template
NoCatalog ==
    [templates |-> [t \in TitleIds |->
                      [exists |-> TRUE, status |-> "published", is_deleted |-> FALSE]],
     sheets |-> [s \in DOMAIN SheetTable |-> SheetTable[s].template],
     destroy |-> NoDestroy,
     create |-> NoCreate]

Init ==
    /\ rows = {}
    /\ row_count = [s \in Sheets |-> 0]
    /\ nextId = 1
    /\ used_ids = {}
    /\ pc = "idle"
    /\ request = NoRequest
    /\ sheet_id = 1
    /\ operations = NoOperations
    /\ insertions_sorted = <<>>
    /\ rows_to_shift = <<>>
    /\ max_order = 0
    /\ app_idx = 0
    /\ needs_update = <<>>
    /\ updated_count = 0
    /\ inserted_count = 0
    /\ deleted_count = 0
    /\ appended_count = 0
    /\ errors = <<>>
    /\ integrity_error = "none"
    /\ response = NoResponse
    /\ pre = NoTransaction
    /\ txn = [p \in Procs |-> NoBatch]
    /\ catalog = NoCatalog

\* a request that passed the checks is parsed and the transaction opens
OpenBatch ==
    /\ sheet_id' = request'.data.sheet_id
    /\ operations' = ParseRequest(rows, sheet_id', request'.data)
    /\ insertions_sorted' = SortInsertions(operations'.insertions)
    /\ pc' = StartDeletions(operations')
    /\ rows_to_shift' = <<>>
    /\ max_order' = 0
    /\ app_idx' = 0
    /\ needs_update' = <<>>
    /\ updated_count' = 0
    /\ inserted_count' = 0
    /\ deleted_count' = 0
    /\ appended_count' = 0
    /\ errors' = <<>>
    /\ integrity_error' = "none"
    /\ response' = NoResponse
    /\ pre' = [rows |-> rows, row_count |-> row_count, used_ids |-> used_ids,
               nextId |-> nextId]
    /\ UNCHANGED <<dbvars, txn, catalog>>

\* a PATCH request in the new format
PatchBegin ==
    /\ pc = "idle"
    /\ \E u \in RequestUsers, t \in TitleIds, s \in PatchSheets,
          nd \in 0..MaxList, ni \in 0..MaxList :
         /\ FatalStatus([user |-> u, title_id |-> t, data |-> [sheet_id |-> s]]) = 0
         /\ nd + ni <= MaxBatch
         /\ \E nu \in 0..MaxList, na \in 0..MaxList :
              /\ nd + ni + nu + na <= MaxBatch
              /\ nextId + ni + na <= MaxId + 1
              /\ \E dl \in Lists(RequestIds, nd), il \in Lists(InsertionItems, ni),
                    ul \in Lists(UpdateItems, nu), al \in Lists(AppendItems, na) :
                   LET ops == [updates |-> ul, insertions |-> il,
                               deletions |-> dl, appends |-> al]
                   IN  request' = [user |-> u, title_id |-> t,
                                   data |-> [sheet_id |-> s, operations |-> ops]]
    /\ OpenBatch

\* a PATCH request in the backward-compatible format: updated_rows,
\* new_rows, deleted_row_ids and deleted_row_numbers, each item carrying
\* some of the content fields
PatchBeginLegacy ==
    /\ pc = "idle"
    /\ \E nu \in 0..MaxContent, na \in 0..MaxContent, nd \in 0..1, np \in 0..1 :
         /\ nu + na + nd + np \in 1..MaxContent
         /\ nextId + na <= MaxContentId + 1
         /\ \E ul \in Lists(ContentUpdateItems, nu), al \in Lists(ContentAppendItems, na),
               dl \in Lists(ContentIds, nd), pl \in Lists(1..MaxContentId, np) :
              request' = [user |-> "u1", title_id |-> 1,
                          data |-> [sheet_id |-> 1, updated_rows |-> ul, new_rows |-> al,
                                    deleted_row_ids |-> dl, deleted_row_numbers |-> pl]]
    /\ OpenBatch

\* a PATCH request in the new format whose update and append items carry
\* some of the content fields
PatchBeginContent ==
    /\ pc = "idle"
    /\ \E nu \in 0..MaxContent, na \in 0..MaxContent, nd \in 0..1 :
         /\ nu + na + nd \in 1..MaxContent
         /\ nextId + na <= MaxContentId + 1
         /\ \E ul \in Lists(ContentUpdateItems, nu), al \in Lists(ContentAppendItems, na),
               dl \in Lists(ContentIds, nd) :
              request' = [user |-> "u1", title_id |-> 1,
                          data |-> [sheet_id |-> 1,
                                    operations |-> [updates |-> ul, insertions |-> <<>>,
                                                    deletions |-> dl, appends |-> al]]]
    /\ OpenBatch

\* a fatal request-level error: sheet_id is missing (400) or no template or
\* sheet is found (404); the handler returns before it reads or writes a row
PatchFatal ==
    /\ pc = "idle"
    /\ \E u \in RequestUsers, t \in TitleIds,
          d \in {<<>>} \cup {[sheet_id |-> s] : s \in PatchSheets} :
         LET req == [user |-> u, title_id |-> t, data |-> d]
         IN  /\ FatalStatus(req) # 0
             /\ request' = req
             /\ sheet_id' = Get(d, "sheet_id", 0)
             /\ response' = [status |-> FatalStatus(req)]
    /\ pc' = "rejected"
    /\ UNCHANGED <<dbvars, operations, insertions_sorted, rows_to_shift, max_order,
                   app_idx, needs_update, updated_count, inserted_count,
                   deleted_count, appended_count, errors, integrity_error, pre, txn, catalog>>

\* fault variant: no atomic block, the writes made so far stay
Rollback_Partial(step) ==
    /\ rows' = rows
    /\ row_count' = row_count
    /\ pc' = "failed"
    /\ integrity_error' = step
    /\ response' = [status |-> 500]

\* an IntegrityError leaves the atomic block: the transaction is rolled back
Rollback(step) ==
    /\ rows' = pre.rows
    /\ row_count' = pre.row_count
    /\ pc' = "failed"
    /\ integrity_error' = step
    /\ response' = [status |-> 500]

\* the steps inside the atomic block
BatchSteps ==
    {"deletions", "insertions", "shift", "create", "updates", "appends",
     "append_create", "renumber", "renumber_write", "row_count"}

\* the statement of the step at hand raises a database error: the exception
\* leaves the atomic block, the transaction is rolled back and the request
\* is answered with a server error
StorageError ==
    /\ pc \in BatchSteps
    /\ Rollback("storage")
    /\ UNCHANGED <<nextId, used_ids, locals, updated_count, inserted_count,
                   deleted_count, appended_count, errors, pre, txn, catalog>>

\* STEP 1: unknown ids are recorded, the rows of the sheet are deleted
Deletions ==
    /\ pc = "deletions"
    /\ LET existing_ids == ExistingIds(rows, sheet_id, operations.deletions)
           invalid_ids == Range(operations.deletions) \ existing_ids
           left == {r \in rows : r.id \notin existing_ids}
       IN  /\ \E order \in Orderings(invalid_ids) :
                 errors' = errors \o [i \in 1..Len(order) |->
                                        [id |-> order[i], error |-> "Row ID not found"]]
           /\ rows' = left
           /\ row_count' = IF existing_ids = {} THEN row_count
                           ELSE SignalRowCount(row_count, left, sheet_id)
           /\ deleted_count' = Cardinality(existing_ids)
    /\ pc' = StartInsertions(operations)
    /\ UNCHANGED <<nextId, used_ids, locals, updated_count, inserted_count,
                   appended_count, integrity_error, response, pre, txn, catalog>>

\* STEP 2, per insertion: the rows at or after insert_at are read, last first
InsertionQuery ==
    /\ pc = "insertions"
    /\ LET insert_at == InsertAt(Head(insertions_sorted))
       IN  rows_to_shift' = RowsToShift(rows, sheet_id, insert_at)
    /\ pc' = IF rows_to_shift' = <<>> THEN "create" ELSE "shift"
    /\ UNCHANGED <<dbvars, request, sheet_id, operations, insertions_sorted, max_order,
                   app_idx, needs_update, results, pre, txn, catalog>>

\* row.row_order += 1; row.save(update_fields=['row_order'])
ShiftRow ==
    /\ pc = "shift"
    /\ LET row == Head(rows_to_shift)
       IN  IF Conflicts(rows, sheet_id, row.id, row.row_order + 1)
           THEN /\ Rollback("shift")
                /\ UNCHANGED rows_to_shift
           ELSE /\ rows' = SetOrder(rows, row.id, row.row_order + 1)
                /\ rows_to_shift' = Tail(rows_to_shift)
                /\ pc' = IF Tail(rows_to_shift) = <<>> THEN "create" ELSE "shift"
                /\ UNCHANGED <<row_count, integrity_error, response>>
    /\ UNCHANGED <<nextId, used_ids, request, sheet_id, operations, insertions_sorted,
                   max_order, app_idx, needs_update, updated_count,
                   inserted_count, deleted_count, appended_count, errors, pre, txn, catalog>>

\* the new row is created at insert_at; post_save recomputes row_count
InsertCreate ==
    /\ pc = "create"
    /\ LET insert_data == Head(insertions_sorted)
           insert_at == InsertAt(insert_data)
           id == NewId(nextId, rows)
           created == rows \cup {NewRow(id, sheet_id, insert_at, insert_at, insert_data)}
       IN  IF Conflicts(rows, sheet_id, 0, insert_at)
           THEN /\ Rollback("create")
                /\ UNCHANGED <<nextId, used_ids, insertions_sorted, inserted_count>>
           ELSE /\ rows' = created
                /\ row_count' = SignalRowCount(row_count, created, sheet_id)
                /\ nextId' = nextId + 1
                /\ used_ids' = used_ids \cup {id}
                /\ inserted_count' = inserted_count + 1
                /\ insertions_sorted' = Tail(insertions_sorted)
                /\ pc' = IF Tail(insertions_sorted) # <<>> THEN "insertions"
                         ELSE StartUpdates(operations)
                /\ UNCHANGED <<integrity_error, response>>
    /\ UNCHANGED <<request, sheet_id, operations, rows_to_shift, max_order, app_idx,
                   needs_update, updated_count, deleted_count, appended_count,
                   errors, pre, txn, catalog>>

\* STEP 3: the rows named by update items are read, changed and written
Updates ==
    /\ pc = "updates"
    /\ rows' = ApplyUpdates(rows, sheet_id, operations.updates)
    /\ updated_count' = UpdatedCount(rows, sheet_id, operations.updates)
    /\ errors' = errors \o UpdateErrors(rows, sheet_id, operations.updates)
    /\ pc' = StartAppends(operations)
    /\ UNCHANGED <<row_count, nextId, used_ids, locals, inserted_count,
                   deleted_count, appended_count, integrity_error, response, pre, txn, catalog>>

\* STEP 4: the current maximum row_order is read
AppendQuery ==
    /\ pc = "appends"
    /\ max_order' = MaxOrder(rows, sheet_id)
    /\ app_idx' = 0
    /\ pc' = "append_create"
    /\ UNCHANGED <<dbvars, request, sheet_id, operations, insertions_sorted, rows_to_shift,
                   needs_update, results, pre, txn, catalog>>

\* bulk_create: the next appended row, at max_order + idx; no signal is sent
AppendCreate ==
    /\ pc = "append_create"
    /\ LET idx == app_idx + 1
           new_order == NewOrder(max_order, idx)
           id == NewId(nextId, rows)
           last == idx = Len(operations.appends)
       IN  IF Conflicts(rows, sheet_id, 0, new_order)
           THEN /\ Rollback("append")
                /\ UNCHANGED <<nextId, used_ids, app_idx, appended_count>>
           ELSE /\ rows' = rows \cup {NewRow(id, sheet_id, new_order, new_order,
                                              operations.appends[idx])}
                /\ nextId' = nextId + 1
                /\ used_ids' = used_ids \cup {id}
                /\ app_idx' = idx
                /\ appended_count' = IF last THEN idx ELSE appended_count
                /\ pc' = IF last THEN "renumber" ELSE "append_create"
                /\ UNCHANGED <<row_count, integrity_error, response>>
    /\ UNCHANGED <<request, sheet_id, operations, insertions_sorted, rows_to_shift,
                   max_order, needs_update, updated_count, inserted_count,
                   deleted_count, errors, pre, txn, catalog>>

\* STEP 5: all rows are read in row_order; those off their index are kept
RenumberQuery ==
    /\ pc = "renumber"
    /\ needs_update' = NeedsUpdate(rows, sheet_id)
    /\ pc' = IF needs_update' = <<>> THEN "row_count" ELSE "renumber_write"
    /\ UNCHANGED <<dbvars, request, sheet_id, operations, insertions_sorted, rows_to_shift,
                   max_order, app_idx, results, pre, txn, catalog>>

\* bulk_update(needs_update, ['row_order', 'row_number']): the next row
RenumberWrite ==
    /\ pc = "renumber_write"
    /\ LET w == Head(needs_update)
       IN  IF Conflicts(rows, sheet_id, w.id, w.idx)
           THEN /\ Rollback("renumber")
                /\ UNCHANGED needs_update
           ELSE /\ rows' = SetOrderAndNumber(rows, w.id, w.idx)
                /\ needs_update' = Tail(needs_update)
                /\ pc' = IF Tail(needs_update) = <<>> THEN "row_count" ELSE "renumber_write"
                /\ UNCHANGED <<row_count, integrity_error, response>>
    /\ UNCHANGED <<nextId, used_ids, request, sheet_id, operations, insertions_sorted,
                   rows_to_shift, max_order, app_idx, updated_count,
                   inserted_count, deleted_count, appended_count, errors, pre, txn, catalog>>

\* fault variant: a request that committed counts as a success
Success_Committed(errs) == TRUE

\* 'success': len(errors) == 0
Success(errs) == Len(errs) = 0

\* STEP 6: row_count is recomputed, the transaction commits, the response
\* is built
UpdateRowCount ==
    /\ pc = "row_count"
    /\ row_count' = [row_count EXCEPT ![sheet_id] = Count(rows, sheet_id)]
    /\ response' = [status |-> 200,
                    success |-> Success(errors),
                    sheet_id |-> sheet_id,
                    updated_count |-> updated_count,
                    inserted_count |-> inserted_count,
                    created_count |-> appended_count,
                    deleted_count |-> deleted_count,
                    row_count |-> row_count'[sheet_id],
                    errors |-> errors]
    /\ pc' = "done"
    /\ UNCHANGED <<rows, nextId, used_ids, locals, updated_count, inserted_count,
                   deleted_count, appended_count, errors, integrity_error, pre, txn, catalog>>

\* the response (or the error) is returned: the request is over
Respond ==
    /\ pc \in {"done", "failed", "rejected", "answered"}
    /\ pc' = "idle"
    /\ request' = NoRequest
    /\ sheet_id' = 1
    /\ operations' = NoOperations
    /\ insertions_sorted' = <<>>
    /\ rows_to_shift' = <<>>
    /\ max_order' = 0
    /\ app_idx' = 0
    /\ needs_update' = <<>>
    /\ updated_count' = 0
    /\ inserted_count' = 0
    /\ deleted_count' = 0
    /\ appended_count' = 0
    /\ errors' = <<>>
    /\ integrity_error' = "none"
    /\ response' = NoResponse
    /\ pre' = NoTransaction
    /\ UNCHANGED <<dbvars, txn, catalog>>

\* ------------------------------------------- single-row endpoints
\* SheetRowListCreateView.post: the serializer has no row_order field, the
\* row takes the column default 1 and save() copies it to row_number. When
\* position 1 of the sheet is taken the INSERT is rejected and nothing
\* changes, so the action is enabled only on a free position 1.
CreateRow ==
    /\ pc = "idle"
    /\ nextId <= MaxId
    /\ \E s \in Sheets, d \in Data :
         /\ ~Conflicts(rows, s, 0, 1)
         /\ rows' = rows \cup {NewRow(NewId(nextId, rows), s, 1, 1, [data |-> d])}
         /\ row_count' = SignalRowCount(row_count, rows', s)
    /\ nextId' = nextId + 1
    /\ used_ids' = used_ids \cup {NewId(nextId, rows)}
    /\ pc' = "idle"
    /\ UNCHANGED <<locals, results, pre, txn, catalog>>

\* SheetRowDetailView destroy: the row is deleted, post_delete recomputes
\* the row_count of its sheet
DeleteRow ==
    /\ pc = "idle"
    /\ \E r \in rows :
         /\ rows' = rows \ {r}
         /\ row_count' = SignalRowCount(row_count, rows', r.sheet)
    /\ pc' = "idle"
    /\ UNCHANGED <<nextId, used_ids, locals, results, pre, txn, catalog>>

\* ------------------------------------------- two requests at once
\* Two PATCH requests for one sheet, each inside its own transaction.atomic()
\* and with no lock on the sheet: a statement reads the committed store and
\* the writes of its own transaction, a write to a row another open
\* transaction has written waits for that transaction to end, and so does a
\* write to a position whose holder is being written by the other one. rows
\* and row_count are the committed store.
Other(p) == 3 - p

\* the transaction of request p is open
Active(p) == txn[p].pc \notin {"idle", "done", "failed"}

\* the rows a statement of request p reads
View(p) ==
    {r \in rows : r.id \notin txn[p].deleted \cup Ids(txn[p].written)}
        \cup txn[p].written

\* row id is locked by the other open transaction
RowLocked(p, id) ==
    /\ Active(Other(p))
    /\ id \in txn[Other(p)].deleted \cup Ids(txn[Other(p)].written)

\* the ActivitySheet row is locked by the other open transaction
SheetLocked(p) == Active(Other(p)) /\ txn[Other(p)].sheet_written

\* fault variant: no unique constraint on (sheet, row_order)
WriteOutcome_Unchecked(p, id, pos) == "ok"

\* UniqueConstraint(fields=['sheet', 'row_order']) as request p meets it when
\* it gives position pos to row id (0 for a new row): the write waits while
\* the other open transaction is writing a holder of pos, is rejected when a
\* row holds pos, and goes through otherwise
WriteOutcome(p, id, pos) ==
    LET s == txn[p].sheet_id
        holders == {r \in SheetRows(View(p), s) : r.row_order = pos /\ r.id # id}
    IN  IF \E r \in holders : RowLocked(p, r.id) THEN "wait"
        ELSE IF holders # {} THEN "rejected"
        ELSE IF /\ Active(Other(p))
                /\ \E r \in SheetRows(txn[Other(p)].written, s) : r.row_order = pos
             THEN "wait"
        ELSE "ok"

\* the next statement of request p has to wait for the other transaction
Waiting(p) ==
    LET b == txn[p]
    IN  \/ /\ b.pc = "deletions"
           /\ \E id \in ExistingIds(View(p), b.sheet_id, b.operations.deletions) :
                 RowLocked(p, id)
        \/ b.pc \in {"delete_signal", "row_count_write"} /\ SheetLocked(p)
        \/ /\ b.pc = "append_create"
           /\ WriteOutcome(p, 0, NewOrder(b.max_order, b.app_idx + 1)) = "wait"
        \/ /\ b.pc = "renumber_write"
           /\ Head(b.needs_update).id \in Ids(View(p))
           /\ \/ RowLocked(p, Head(b.needs_update).id)
              \/ WriteOutcome(p, Head(b.needs_update).id, Head(b.needs_update).idx) = "wait"

\* the appended rows request p has still to create
PendingAppends(p) ==
    IF Active(p) THEN Len(txn[p].operations.appends) - txn[p].app_idx ELSE 0

\* the transaction of request p is rolled back: its writes and locks go
Aborted(p, step) ==
    [txn[p] EXCEPT !.pc = "failed", !.integrity_error = step, !.deleted = {},
                   !.written = {}, !.sheet_written = FALSE]

\* request p passed the checks, its batch of deletions and appends is
\* parsed and its transaction opens
TxnBegin(p) ==
    /\ txn[p].pc = "idle"
    /\ \E s \in PatchSheets, nd \in 0..MaxTxnList, na \in 0..MaxTxnList :
         /\ FatalStatus([user |-> "u1", title_id |-> 1, data |-> [sheet_id |-> s]]) = 0
         /\ nd + na >= 1
         /\ nextId + na + PendingAppends(Other(p)) <= MaxTxnId + 1
         /\ \E dl \in Lists(1..MaxTxnId, nd), al \in Lists({[data |-> "a"]}, na) :
              LET ops == [NoOperations EXCEPT !.deletions = dl, !.appends = al]
              IN  txn' = [txn EXCEPT ![p] =
                            [NoBatch EXCEPT !.pc = StartDeletions(ops),
                                            !.sheet_id = s,
                                            !.operations = ops,
                                            !.began = rows]]
    /\ UNCHANGED <<dbvars, pc, locals, results, pre, catalog>>

\* STEP 1 of request p: the rows of the sheet named in deletions are deleted
TxnDeletions(p) ==
    /\ txn[p].pc = "deletions"
    /\ ~Waiting(p)
    /\ LET b == txn[p]
           existing_ids == ExistingIds(View(p), b.sheet_id, b.operations.deletions)
       IN  txn' = [txn EXCEPT ![p] =
                     [b EXCEPT !.deleted = existing_ids,
                               !.pc = IF existing_ids = {}
                                      THEN StartInsertions(b.operations)
                                      ELSE "delete_signal"]]
    /\ UNCHANGED <<dbvars, pc, locals, results, pre, catalog>>

\* the post_delete receiver: the sheet's row_count is counted and written
TxnDeleteSignal(p) ==
    /\ txn[p].pc = "delete_signal"
    /\ ~Waiting(p)
    /\ txn' = [txn EXCEPT ![p] =
                 [txn[p] EXCEPT !.row_count = Count(View(p), txn[p].sheet_id),
                                !.sheet_written = TRUE,
                                !.pc = StartInsertions(txn[p].operations)]]
    /\ UNCHANGED <<dbvars, pc, locals, results, pre, catalog>>

\* STEP 4 of request p: the current maximum row_order is read
TxnAppendQuery(p) ==
    /\ txn[p].pc = "appends"
    /\ txn' = [txn EXCEPT ![p] =
                 [txn[p] EXCEPT !.max_order = MaxOrder(View(p), txn[p].sheet_id),
                                !.app_idx = 0,
                                !.pc = "append_create"]]
    /\ UNCHANGED <<dbvars, pc, locals, results, pre, catalog>>

\* the next appended row of request p is created at max_order + idx, or the
\* constraint rejects it and the transaction is rolled back
TxnAppendCreate(p) ==
    /\ txn[p].pc = "append_create"
    /\ ~Waiting(p)
    /\ LET b == txn[p]
           idx == b.app_idx + 1
           new_order == NewOrder(b.max_order, idx)
           last == idx = Len(b.operations.appends)
       IN  IF WriteOutcome(p, 0, new_order) = "rejected"
           THEN /\ txn' = [txn EXCEPT ![p] = Aborted(p, "append")]
                /\ UNCHANGED <<nextId, used_ids>>
           ELSE /\ txn' = [txn EXCEPT ![p] =
                             [b EXCEPT !.written = b.written \cup
                                          {NewRow(nextId, b.sheet_id, new_order, new_order,
                                                  b.operations.appends[idx])},
                                       !.app_idx = idx,
                                       !.pc = IF last THEN "renumber" ELSE "append_create"]]
                /\ nextId' = nextId + 1
                /\ used_ids' = used_ids \cup {nextId}
    /\ UNCHANGED <<rows, row_count, pc, locals, results, pre, catalog>>

\* STEP 5 of request p: the rows it reads are listed in row_order
TxnRenumberQuery(p) ==
    /\ txn[p].pc = "renumber"
    /\ LET needs == NeedsUpdate(View(p), txn[p].sheet_id)
       IN  txn' = [txn EXCEPT ![p] =
                     [txn[p] EXCEPT !.needs_update = needs,
                                    !.pc = IF needs = <<>> THEN "row_count"
                                           ELSE "renumber_write"]]
    /\ UNCHANGED <<dbvars, pc, locals, results, pre, catalog>>

\* the next renumbering write of request p; a row that is gone by now is
\* passed over, a write the constraint rejects rolls the transaction back
TxnRenumberWrite(p) ==
    /\ txn[p].pc = "renumber_write"
    /\ ~Waiting(p)
    /\ LET b == txn[p]
           w == Head(b.needs_update)
           after == [b EXCEPT !.needs_update = Tail(b.needs_update),
                              !.pc = IF Tail(b.needs_update) = <<>> THEN "row_count"
                                     ELSE "renumber_write"]
       IN  IF w.id \notin Ids(View(p))
           THEN txn' = [txn EXCEPT ![p] = after]
           ELSE IF WriteOutcome(p, w.id, w.idx) = "rejected"
           THEN txn' = [txn EXCEPT ![p] = Aborted(p, "renumber")]
           ELSE txn' = [txn EXCEPT ![p] =
                          [after EXCEPT !.written =
                              {r \in SetOrderAndNumber(View(p), w.id, w.idx) :
                                  r.id \in Ids(b.written) \cup {w.id}}]]
    /\ UNCHANGED <<dbvars, pc, locals, results, pre, catalog>>

\* STEP 6 of request p: sheet.rows.count() is read
TxnRowCount(p) ==
    /\ txn[p].pc = "row_count"
    /\ txn' = [txn EXCEPT ![p] =
                 [txn[p] EXCEPT !.row_count = Count(View(p), txn[p].sheet_id),
                                !.pc = "row_count_write"]]
    /\ UNCHANGED <<dbvars, pc, locals, results, pre, catalog>>

\* the count is written to the sheet and the transaction of request p
\* commits: its writes become the committed store
TxnCommit(p) ==
    /\ txn[p].pc = "row_count_write"
    /\ ~Waiting(p)
    /\ rows' = View(p)
    /\ row_count' = [row_count EXCEPT ![txn[p].sheet_id] = txn[p].row_count]
    /\ txn' = [txn EXCEPT ![p] =
                 [txn[p] EXCEPT !.pc = "done", !.deleted = {}, !.written = {},
                                !.sheet_written = FALSE]]
    /\ UNCHANGED <<nextId, used_ids, pc, locals, results, pre, catalog>>

\* both transactions wait for each other: the store ends one of them
TxnDeadlock(p) ==
    /\ Active(p) /\ Waiting(p)
    /\ Active(Other(p)) /\ Waiting(Other(p))
    /\ txn' = [txn EXCEPT ![p] = Aborted(p, "deadlock")]
    /\ UNCHANGED <<dbvars, pc, locals, results, pre, catalog>>

\* the response of request p is returned
TxnRespond(p) ==
    /\ txn[p].pc \in {"done", "failed"}
    /\ txn' = [txn EXCEPT ![p] = NoBatch]
    /\ UNCHANGED <<dbvars, pc, locals, results, pre, catalog>>

NextConcurrent ==
    \/ \E p \in Procs : TxnBegin(p)
    \/ \E p \in Procs : TxnDeletions(p)
    \/ \E p \in Procs : TxnDeleteSignal(p)
    \/ \E p \in Procs : TxnAppendQuery(p)
    \/ \E p \in Procs : TxnAppendCreate(p)
    \/ \E p \in Procs : TxnRenumberQuery(p)
    \/ \E p \in Procs : TxnRenumberWrite(p)
    \/ \E p \in Procs : TxnRowCount(p)
    \/ \E p \in Procs : TxnCommit(p)
    \/ \E p \in Procs : TxnDeadlock(p)
    \/ \E p \in Procs : TxnRespond(p)

SpecConcurrent == Init /\ [][NextConcurrent]_vars

Next ==
    \/ PatchBegin
    \/ PatchFatal
    \/ Deletions
    \/ InsertionQuery
    \/ ShiftRow
    \/ InsertCreate
    \/ Updates
    \/ AppendQuery
    \/ AppendCreate
    \/ RenumberQuery
    \/ RenumberWrite
    \/ UpdateRowCount
    \/ Respond
    \/ CreateRow
    \/ DeleteRow

Spec == Init /\ [][Next]_vars

\* the handler on a store whose statements may fail
NextFailure ==
    \/ Next
    \/ StorageError

SpecFailure == Init /\ [][NextFailure]_vars

\* the handler under requests of both formats whose items carry any of the
\* content fields data, styles and height (and no insertions)
NextContent ==
    \/ PatchBeginLegacy
    \/ PatchBeginContent
    \/ Deletions
    \/ Updates
    \/ AppendQuery
    \/ AppendCreate
    \/ RenumberQuery
    \/ RenumberWrite
    \/ UpdateRowCount
    \/ Respond
    \/ DeleteRow

SpecContent == Init /\ [][NextContent]_vars

TypeOK ==
    /\ \A r \in rows : r.id \in 1..MaxId /\ r.sheet \in Sheets /\ r.row_order \in Nat
    /\ nextId \in 1..(MaxId + 1)

\* ------------------------------------- the handler as one function
\* The steps above composed: the store a whole PATCH request leaves, from
\* the store R and id sequence nid it finds. ok is FALSE when a write was
\* rejected and the transaction rolled back.
Failed(R, nid) == [ok |-> FALSE, rows |-> R, nextId |-> nid]

\* the shift loop of one insertion over the rows it read
RECURSIVE ShiftAll(_, _, _)
ShiftAll(st, s, to_shift) ==
    IF ~st.ok \/ to_shift = <<>> THEN st
    ELSE LET row == Head(to_shift)
         IN  IF Conflicts(st.rows, s, row.id, row.row_order + 1)
             THEN [st EXCEPT !.ok = FALSE]
             ELSE ShiftAll([st EXCEPT !.rows = SetOrder(st.rows, row.id, row.row_order + 1)],
                           s, Tail(to_shift))

\* the loop over insertions_sorted
RECURSIVE ApplyInsertions(_, _, _)
ApplyInsertions(st, s, sorted) ==
    IF ~st.ok \/ sorted = <<>> THEN st
    ELSE LET insert_data == Head(sorted)
             insert_at == InsertAt(insert_data)
             shifted == ShiftAll(st, s, RowsToShift(st.rows, s, insert_at))
         IN  IF ~shifted.ok \/ Conflicts(shifted.rows, s, 0, insert_at)
             THEN [st EXCEPT !.ok = FALSE]
             ELSE ApplyInsertions(
                    [ok |-> TRUE,
                     rows |-> shifted.rows \cup
                                {NewRow(NewId(st.nextId, shifted.rows), s, insert_at,
                                        insert_at, insert_data)},
                     nextId |-> st.nextId + 1],
                    s, Tail(sorted))

\* the append step: rows at max_order + 1, max_order + 2, ...
RECURSIVE ApplyAppends(_, _, _, _, _)
ApplyAppends(st, s, appends, max, idx) ==
    IF ~st.ok \/ idx > Len(appends) THEN st
    ELSE IF Conflicts(st.rows, s, 0, NewOrder(max, idx))
         THEN [st EXCEPT !.ok = FALSE]
         ELSE ApplyAppends(
                [ok |-> TRUE,
                 rows |-> st.rows \cup
                            {NewRow(NewId(st.nextId, st.rows), s, NewOrder(max, idx),
                                    NewOrder(max, idx), appends[idx])},
                 nextId |-> st.nextId + 1],
                s, appends, max, idx + 1)

\* the renumbering writes, in the order of needs_update
RECURSIVE ApplyRenumber(_, _, _)
ApplyRenumber(st, s, writes) ==
    IF ~st.ok \/ writes = <<>> THEN st
    ELSE LET w == Head(writes)
         IN  IF Conflicts(st.rows, s, w.id, w.idx)
             THEN [st EXCEPT !.ok = FALSE]
             ELSE ApplyRenumber([st EXCEPT !.rows = SetOrderAndNumber(st.rows, w.id, w.idx)],
                                s, Tail(writes))

RunBatch(R, nid, s, ops) ==
    LET deleted == {r \in R : r.id \notin ExistingIds(R, s, ops.deletions)}
        inserted == ApplyInsertions([ok |-> TRUE, rows |-> deleted, nextId |-> nid],
                                    s, SortInsertions(ops.insertions))
        updated == [inserted EXCEPT !.rows = ApplyUpdates(inserted.rows, s, ops.updates)]
        appended == ApplyAppends(updated, s, ops.appends, MaxOrder(updated.rows, s), 1)
        renumbered == ApplyRenumber(appended, s, NeedsUpdate(appended.rows, s))
    IN  IF renumbered.ok THEN renumbered ELSE Failed(R, renumbered.nextId)

\* the counts of the response to a whole PATCH request that completes
BatchCounts(R, nid, s, ops) ==
    LET existing == ExistingIds(R, s, ops.deletions)
        deleted == {r \in R : r.id \notin existing}
        inserted == ApplyInsertions([ok |-> TRUE, rows |-> deleted, nextId |-> nid],
                                    s, SortInsertions(ops.insertions))
    IN  [updated_count |-> UpdatedCount(inserted.rows, s, ops.updates),
         inserted_count |-> Len(ops.insertions),
         created_count |-> Len(ops.appends),
         deleted_count |-> Cardinality(existing),
         row_count |-> Count(RunBatch(R, nid, s, ops).rows, s)]

\* ------------------------------------------------------------ properties
\* the positions of sheet s in R are pairwise distinct
DistinctPositions(R, s) ==
    \A r1, r2 \in SheetRows(R, s) : r1.row_order = r2.row_order => r1.id = r2.id

\* the positions of sheet s in R are exactly 1..N
Contiguous(R, s) == Positions(R, s) = 1..Count(R, s)

\* the rows the batch in hand deleted
DeletedIds == ExistingIds(pre.rows, sheet_id, operations.deletions)

\* C1 - Contiguity: after a PATCH batch that completes on a sheet whose
\* positions were pairwise distinct before it (contiguous or with gaps), the
\* positions of the sheet are exactly 1..N, N its number of rows, and they
\* are pairwise distinct.
C1_Contiguity ==
    (pc = "done" /\ DistinctPositions(pre.rows, sheet_id))
        => /\ Contiguous(rows, sheet_id)
           /\ DistinctPositions(rows, sheet_id)

\* a batch with a deletion and a new row completed on a sheet that had a gap
C1_Witness ==
    /\ pc = "done"
    /\ ~Contiguous(pre.rows, sheet_id)
    /\ deleted_count > 0
    /\ inserted_count + appended_count > 0

\* C2 - row_count never drifts: whenever no batch is in progress (after a
\* completed batch, after a single row creation or deletion) the row_count
\* of every sheet is the number of rows stored for it, a batch in progress
\* leaves the other sheets exact, and the row_count of the PATCH response is
\* the number of rows of the sheet.
C2_RowCountExact ==
    /\ \A s \in Sheets :
          (pc \in {"idle", "done", "failed", "rejected"} \/ s # sheet_id)
              => row_count[s] = Cardinality({r \in rows : r.sheet = s})
    /\ pc = "done" =>
          response.row_count = Cardinality({r \in rows : r.sheet = sheet_id})

\* a batch that appended completed with another count than before, next to
\* a sheet with rows of its own
C2_Witness ==
    /\ pc = "done"
    /\ appended_count > 0
    /\ response.row_count # pre.row_count[sheet_id]
    /\ \E s \in Sheets : s # sheet_id /\ row_count[s] > 0

\* C3 - Identity stability: a row the batch did not delete is still there
\* under the same id with the same sheet (and the same payload unless an
\* update item names it), the deleted rows are gone, and every row the batch
\* created has an id no row has held before; ids are never shared.
C3_IdentityStability ==
    /\ \A r1, r2 \in rows : r1.id = r2.id => r1 = r2
    /\ Ids(rows) \subseteq used_ids
    /\ pc = "done" =>
          /\ \A r \in pre.rows :
                IF r.id \in DeletedIds
                THEN r.id \notin Ids(rows)
                ELSE \E q \in rows :
                        /\ q.id = r.id
                        /\ q.sheet = r.sheet
                        /\ (q.data = r.data \/ \E i \in DOMAIN operations.updates :
                                                    operations.updates[i].id = r.id)
          /\ \A q \in rows : q.id \notin Ids(pre.rows) => q.id \notin pre.used_ids
          /\ Cardinality(Ids(rows) \ Ids(pre.rows)) = inserted_count + appended_count

\* a batch created a row after some id had been retired, moved a surviving
\* row and deleted another
C3_Witness ==
    /\ pc = "done"
    /\ pre.used_ids # Ids(pre.rows)
    /\ inserted_count + appended_count > 0
    /\ \E r \in pre.rows, q \in rows : q.id = r.id /\ q.row_order # r.row_order

\* C4 - No transient duplicate positions during insertion shifting: the rows
\* at or after the insert position are written last first, every such write
\* and the creation of the new row go to a position no other row of the
\* sheet holds, and no write of the insertion step is rejected.
C4_NoTransientDuplicates ==
    /\ integrity_error \notin {"shift", "create"}
    /\ \A s \in Sheets : DistinctPositions(rows, s)
    /\ pc = "shift" =>
          /\ \A i, j \in DOMAIN rows_to_shift :
                i < j => rows_to_shift[i].row_order > rows_to_shift[j].row_order
          /\ \A i \in DOMAIN rows_to_shift :
                rows_to_shift[i].row_order >= InsertAt(Head(insertions_sorted))
          /\ ~Conflicts(rows, sheet_id, Head(rows_to_shift).id,
                        Head(rows_to_shift).row_order + 1)
    /\ pc = "create" =>
          /\ ~Conflicts(rows, sheet_id, 0, InsertAt(Head(insertions_sorted)))
          /\ \A r \in SheetRows(rows, sheet_id) :
                r.row_order # InsertAt(Head(insertions_sorted))

\* two rows have been shifted and the new row is about to be created
C4_Witness ==
    /\ pc = "create"
    /\ Cardinality({r \in SheetRows(rows, sheet_id) :
                       r.row_order > InsertAt(Head(insertions_sorted))}) >= 2

Reorderings(l) == {[i \in 1..Len(l) |-> l[p[i]]] : p \in Orderings(1..Len(l))}

\* what the batch in hand would have left had its insertions been ins
ArrangementWith(ins) ==
    LET other == RunBatch(pre.rows, pre.nextId, sheet_id,
                          [operations EXCEPT !.insertions = ins])
    IN  [ok |-> other.ok, arrangement |-> Arrangement(other.rows, sheet_id)]

\* no two insertion items that differ name the same insert position
TiesAreEqual(ins) ==
    \A i, j \in DOMAIN ins :
        ins[i].insert_at_order = ins[j].insert_at_order => ins[i] = ins[j]

\* C6 (as stated) - Order-independence of insertions: the same insertion
\* items submitted in any other order yield the same final arrangement, for
\* any collection and any batch.
C6_OrderIndependence ==
    pc = "done" =>
        \A ins \in Reorderings(operations.insertions) :
            ArrangementWith(ins) = [ok |-> TRUE, arrangement |-> Arrangement(rows, sheet_id)]

\* C6 (amended) - Order-independence of insertions holds when no two
\* insertion items with different content name the same insert position:
\* then the same items in any other order yield the same final arrangement.
\* Items naming the same position are applied in input order, so reordering
\* them reorders the rows they create.
C6_OrderIndependenceDistinct ==
    (pc = "done" /\ TiesAreEqual(operations.insertions)) =>
        \A ins \in Reorderings(operations.insertions) :
            ArrangementWith(ins) = [ok |-> TRUE, arrangement |-> Arrangement(rows, sheet_id)]

\* a batch with two insertions at different positions, given out of order,
\* completed on a sheet that had a row
C6_Witness ==
    /\ pc = "done"
    /\ Len(operations.insertions) = 2
    /\ operations.insertions[1].insert_at_order > operations.insertions[2].insert_at_order
    /\ operations.insertions[1].data # operations.insertions[2].data
    /\ SheetRows(pre.rows, sheet_id) # {}

\* the ids of the sheet's rows before the batch
PreIds == {r.id : r \in {q \in pre.rows : q.sheet = sheet_id}}

\* the ids the batch named in deletions that were rows of the sheet
KnownDeletions == Range(operations.deletions) \cap PreIds

\* the ids of the rows the insertion step created
InsertedIds == pre.nextId..(pre.nextId + Len(operations.insertions) - 1)

\* the ids of the rows the append step created, in input order
AppendedId(j) == pre.nextId + Len(operations.insertions) + j - 1

\* the ids that are rows of the sheet when the update step runs: the rows
\* the deletion step left and the rows the insertion step created
IdsAtUpdate == (PreIds \ KnownDeletions) \cup InsertedIds

ValidUpdates == {i \in DOMAIN operations.updates : operations.updates[i].id \in IdsAtUpdate}
InvalidUpdates == DOMAIN operations.updates \ ValidUpdates

\* the entries of errors with a given reason, in order
ErrorsOf(reason) == SelectSeq(errors, LAMBDA e : e.error = reason)

\* C7 - Partial failure of updates: with v update items naming rows of the
\* sheet (as the update step finds it) and u items naming ids that are not
\* rows of the sheet, the batch completes and is never rolled back,
\* updated_count = v, exactly u entries are added to errors, one per
\* offending item in list order and carrying its id, every valid item's
\* payload is on its row after the batch, and rows of other sheets are
\* untouched.
C7_PartialUpdateFailure ==
    /\ pc # "failed"
    /\ pc = "done" =>
          /\ response.status = 200
          /\ response.updated_count = Cardinality(ValidUpdates)
          /\ Len(ErrorsOf("Row not found for update")) = Cardinality(InvalidUpdates)
          /\ LET missing == SelectSeq(operations.updates, LAMBDA u : u.id \notin IdsAtUpdate)
             IN  \A k \in DOMAIN missing :
                    ErrorsOf("Row not found for update")[k].id = missing[k].id
          /\ response.errors = errors
          /\ \A i \in ValidUpdates :
                LET id == operations.updates[i].id
                    last == CHOOSE j \in ValidUpdates :
                               /\ operations.updates[j].id = id
                               /\ \A k \in ValidUpdates :
                                     operations.updates[k].id = id => k <= j
                IN  \E r \in rows : /\ r.id = id
                                     /\ r.sheet = sheet_id
                                     /\ r.data = operations.updates[last].data
          /\ {r \in rows : r.sheet # sheet_id} = {r \in pre.rows : r.sheet # sheet_id}

\* a batch with one update of a row of the sheet and one update of an id
\* that is no row of the sheet completed
C7_Witness ==
    /\ pc = "done"
    /\ Cardinality(ValidUpdates) = 1
    /\ Cardinality(InvalidUpdates) = 1
    /\ \E i \in ValidUpdates : \E r \in pre.rows :
          r.id = operations.updates[i].id /\ r.data # operations.updates[i].data

\* C8 - Deletions with unknown ids are non-fatal: every id in deletions that
\* names a row of the target sheet is removed, every other id (the id of a
\* row of another sheet included) gets one recorded error and removes
\* nothing, deleted_count is the number of rows removed, and the insertion
\* and append steps of the batch still run.
C8_DeletionsNonFatal ==
    pc = "done" =>
        LET unknown == Range(operations.deletions) \ KnownDeletions
            notFound == ErrorsOf("Row ID not found")
        IN  /\ Ids(rows) \cap KnownDeletions = {}
            /\ \A r \in pre.rows : r.id \notin KnownDeletions => r.id \in Ids(rows)
            /\ {notFound[k].id : k \in DOMAIN notFound} = unknown
            /\ Len(notFound) = Cardinality(unknown)
            /\ response.deleted_count = Cardinality(KnownDeletions)
            /\ response.deleted_count = Cardinality(Ids(pre.rows) \ Ids(rows))
            /\ response.inserted_count = Len(operations.insertions)
            /\ response.created_count = Len(operations.appends)
            /\ Cardinality(Ids(rows) \ Ids(pre.rows))
                  = Len(operations.insertions) + Len(operations.appends)
            /\ response.status = 200

\* a batch that named a row of the sheet and a row of another sheet in
\* deletions, and created a row, completed
C8_Witness ==
    /\ pc = "done"
    /\ KnownDeletions # {}
    /\ \E r \in pre.rows : r.sheet # sheet_id /\ r.id \in Range(operations.deletions)
    /\ Len(operations.insertions) + Len(operations.appends) > 0

\* the row of the sheet with a given id, after the batch
RowOf(id) == CHOOSE r \in rows : r.id = id

\* the place of insertion item i among the items of the batch by position
RankOf(i) ==
    Cardinality({k \in DOMAIN operations.insertions :
                    operations.insertions[k].insert_at_order
                        < operations.insertions[i].insert_at_order}) + 1

\* the batch in hand holds insertions only, at pairwise distinct positions,
\* each within [1, size + 1] of the collection when it is applied, and found
\* the sheet at positions 1..N
InsertOnlyBatch ==
    /\ Contiguous(pre.rows, sheet_id)
    /\ operations.insertions # <<>>
    /\ operations.deletions = <<>>
    /\ operations.updates = <<>>
    /\ operations.appends = <<>>
    /\ \A i, j \in DOMAIN operations.insertions :
          i # j => operations.insertions[i].insert_at_order
                     # operations.insertions[j].insert_at_order
    /\ \A i \in DOMAIN operations.insertions :
          operations.insertions[i].insert_at_order
              <= Cardinality(PreIds) + RankOf(i)

\* C9 - Insert in the middle: after an insert-only batch on positions 1..N,
\* every new row is at exactly its requested position with its payload, the
\* pre-existing rows fill the other positions of 1..N+k in their former
\* order (for a single insertion at P: rows formerly at P..N are at
\* P+1..N+1, rows before P are where they were), and row_count is N + k.
C9_InsertInMiddle ==
    (pc = "done" /\ InsertOnlyBatch) =>
        LET N == Cardinality(PreIds)
            k == Len(operations.insertions)
            requested == {operations.insertions[i].insert_at_order :
                             i \in DOMAIN operations.insertions}
            free == (1..(N + k)) \ requested
        IN  /\ \A i \in DOMAIN operations.insertions :
                  \E r \in rows :
                      /\ r.id = pre.nextId + RankOf(i) - 1
                      /\ r.id \notin Ids(pre.rows)
                      /\ r.sheet = sheet_id
                      /\ r.row_order = operations.insertions[i].insert_at_order
                      /\ r.data = operations.insertions[i].data
            /\ \A r \in pre.rows :
                  r.sheet = sheet_id =>
                      /\ RowOf(r.id).row_order \in free
                      /\ Cardinality({p \in free : p <= RowOf(r.id).row_order}) = r.row_order
                      /\ RowOf(r.id).data = r.data
            /\ k = 1 =>
                  \A r \in pre.rows :
                      r.sheet = sheet_id =>
                          RowOf(r.id).row_order =
                              IF r.row_order >= operations.insertions[1].insert_at_order
                              THEN r.row_order + 1 ELSE r.row_order
            /\ response.row_count = N + k
            /\ row_count[sheet_id] = N + k
            /\ Count(rows, sheet_id) = N + k

\* one row was inserted at position 2 of a sheet with positions 1..2
C9_Witness ==
    /\ pc = "done"
    /\ InsertOnlyBatch
    /\ Cardinality(PreIds) = 2
    /\ Len(operations.insertions) = 1
    /\ operations.insertions[1].insert_at_order = 2

\* the rows of the sheet that were there before the batch and outlived it
Survivors == {r \in pre.rows : r.sheet = sheet_id /\ r.id \notin KnownDeletions}

\* C10 - Delete then append: the m appended rows hold the last m final
\* positions in input order, after every surviving and every inserted row;
\* without insertions the k survivors are at 1..k in their former order, with
\* no gap at the deleted positions, and the appended rows at k+1..k+m.
C10_DeleteThenAppend ==
    pc = "done" =>
        LET m == Len(operations.appends)
            total == Count(rows, sheet_id)
            k == Cardinality(Survivors)
        IN  /\ \A j \in 1..m :
                  \E r \in rows :
                      /\ r.id = AppendedId(j)
                      /\ r.sheet = sheet_id
                      /\ r.row_order = total - m + j
                      /\ r.data = operations.appends[j].data
            /\ \A r \in rows :
                  (r.sheet = sheet_id /\ r.id \notin {AppendedId(j) : j \in 1..m})
                      => r.row_order \in 1..(total - m)
            /\ operations.insertions = <<>> =>
                  /\ total = k + m
                  /\ {RowOf(r.id).row_order : r \in Survivors} = 1..k
                  /\ \A r1, r2 \in Survivors :
                        r1.row_order < r2.row_order
                            => RowOf(r1.id).row_order < RowOf(r2.id).row_order
                  /\ \A j \in 1..m : RowOf(AppendedId(j)).row_order = k + j

\* a batch deleted a row that was not the last one and appended a row
C10_Witness ==
    /\ pc = "done"
    /\ operations.insertions = <<>>
    /\ Len(operations.appends) >= 1
    /\ \E r \in pre.rows, q \in Survivors :
          r.id \in KnownDeletions /\ r.row_order < q.row_order

\* the counts of the response of the batch in hand
ResponseCounts ==
    [updated_count |-> response.updated_count,
     inserted_count |-> response.inserted_count,
     created_count |-> response.created_count,
     deleted_count |-> response.deleted_count,
     row_count |-> response.row_count]

\* the request in hand is in the backward-compatible format
IsLegacy == request # NoRequest /\ "operations" \notin DOMAIN request.data

\* the new-format request that carries the new_rows items of the legacy
\* request in hand, as they were sent, in its appends list
CanonicalAppends == [operations EXCEPT !.appends = request.data.new_rows]

\* C11 - Legacy translation of new_rows: a request without an operations key
\* whose new_rows holds k items leaves the same store (rows, their order and
\* content, row_count) and returns the same counts as the new-format request
\* with the same k items in appends; at no step of the batch is there an
\* insertion, and the k rows are the last k of the sheet in input order.
C11_LegacyNewRows ==
    (IsLegacy /\ pc # "rejected") =>
        /\ operations.insertions = <<>>
        /\ pc # "failed"
        /\ pc = "done" =>
              LET k == Len(request.data.new_rows)
                  canonical == RunBatch(pre.rows, pre.nextId, sheet_id, CanonicalAppends)
              IN  /\ canonical.ok
                  /\ rows = canonical.rows
                  /\ row_count[sheet_id] = Count(canonical.rows, sheet_id)
                  /\ ResponseCounts
                        = BatchCounts(pre.rows, pre.nextId, sheet_id, CanonicalAppends)
                  /\ response.created_count = k
                  /\ response.inserted_count = 0
                  /\ \A j \in 1..k :
                        \E r \in rows :
                            /\ r.id = pre.nextId + j - 1
                            /\ r.sheet = sheet_id
                            /\ r.row_order = Count(rows, sheet_id) - k + j
                            /\ r.data = Get(request.data.new_rows[j], "data", EmptyDict)

\* a legacy request with two new_rows items, one of them without styles and
\* height, completed
C11_Witness ==
    /\ pc = "done"
    /\ IsLegacy
    /\ Len(request.data.new_rows) = 2
    /\ \E j \in 1..2 : "styles" \notin DOMAIN request.data.new_rows[j]
    /\ \E j \in 1..2 : "styles" \in DOMAIN request.data.new_rows[j]

\* the new-format request that carries the updated_rows items of the legacy
\* request in hand, as they were sent, in its updates list
CanonicalUpdates == [operations EXCEPT !.updates = request.data.updated_rows]

\* the content fields no updated_rows item naming row id carries
AbsentFields(id) ==
    {f \in {"data", "styles", "height"} :
        \A i \in DOMAIN request.data.updated_rows :
            request.data.updated_rows[i].id = id
                => f \notin DOMAIN request.data.updated_rows[i]}

\* C12 (as stated) - The legacy adapter is a pure normalization of updates:
\* a legacy request leaves every row as the new-format request with the
\* same updated_rows items in updates leaves it, so a field among data,
\* styles and height that a legacy item does not carry keeps its stored
\* value on the row.
C12_LegacyUpdatesNormalized ==
    (pc = "done" /\ IsLegacy) =>
        /\ rows = RunBatch(pre.rows, pre.nextId, sheet_id, CanonicalUpdates).rows
        /\ \A r \in pre.rows, q \in rows :
              (q.id = r.id /\ r.sheet = sheet_id) =>
                  \A f \in AbsentFields(r.id) : q[f] = r[f]

\* the ids of the rows that hold, before the batch, a position listed in
\* deleted_row_numbers
ResolvedIds ==
    {r.id : r \in {q \in pre.rows : /\ q.sheet = sheet_id
                                   /\ q.row_order \in Range(request.data.deleted_row_numbers)}}

\* the new-format request that deletes deleted_row_ids and exactly the rows
\* at the listed positions, by id
CanonicalDeletions ==
    [operations EXCEPT !.deletions = request.data.deleted_row_ids
                                       \o (CHOOSE l \in Orderings(ResolvedIds) : TRUE)]

\* C13 - Legacy position-based deletions: the positions of
\* deleted_row_numbers are resolved, against the positions the sheet has
\* before the batch changes anything, to the ids of the rows there and merged
\* into deletions (a position no row holds resolves to nothing), and the
\* completed batch leaves the store and returns the counts of the new-format
\* request that deletes exactly those ids.
C13_LegacyPositionDeletions ==
    (IsLegacy /\ pc # "rejected") =>
        /\ Range(operations.deletions)
              = Range(request.data.deleted_row_ids) \cup ResolvedIds
        /\ Len(operations.deletions)
              = Len(request.data.deleted_row_ids) + Cardinality(ResolvedIds)
        /\ pc = "done" =>
              /\ rows = RunBatch(pre.rows, pre.nextId, sheet_id, CanonicalDeletions).rows
              /\ row_count[sheet_id] = Count(rows, sheet_id)
              /\ ResponseCounts
                    = BatchCounts(pre.rows, pre.nextId, sheet_id, CanonicalDeletions)
              /\ Ids(rows) \cap ResolvedIds = {}
              /\ \A r \in pre.rows :
                    r.id \notin ResolvedIds \cup Range(request.data.deleted_row_ids)
                        => r.id \in Ids(rows)
              /\ response.deleted_count
                    = Cardinality(ResolvedIds \cup
                                  (Range(request.data.deleted_row_ids) \cap PreIds))

\* a legacy request deleted by position the row ahead of another row, and
\* the batch completed
C13_Witness ==
    /\ pc = "done"
    /\ IsLegacy
    /\ request.data.deleted_row_ids = <<>>
    /\ ResolvedIds # {}
    /\ \E r \in pre.rows, q \in rows :
          /\ r.id \in ResolvedIds
          /\ q.sheet = sheet_id
          /\ q.id \in Ids(pre.rows)
          /\ q.row_order = r.row_order

\* C14 - The success flag of the response is true exactly when its errors
\* list is empty. The list holds one entry per unknown deletion id and per
\* update item of an unknown row; when it is not empty success is false, yet
\* the response has status 200, the counts are those of the operations that
\* were applied and the store is the one the whole batch leaves, committed.
C14_SuccessFlag ==
    pc = "done" =>
        /\ response.success <=> response.errors = <<>>
        /\ response.errors = errors
        /\ Len(errors) = Cardinality(Range(operations.deletions) \ KnownDeletions)
                            + Cardinality(InvalidUpdates)
        /\ response.errors # <<>> =>
              /\ ~response.success
              /\ response.status = 200
              /\ rows = RunBatch(pre.rows, pre.nextId, sheet_id, operations).rows
              /\ ResponseCounts = BatchCounts(pre.rows, pre.nextId, sheet_id, operations)
              /\ row_count[sheet_id] = Count(rows, sheet_id)

\* a batch with an unknown id completed with errors and positive counts:
\* it deleted a row and created another
C14_Witness ==
    /\ pc = "done"
    /\ response.errors # <<>>
    /\ ~response.success
    /\ response.deleted_count > 0
    /\ response.inserted_count + response.created_count > 0
    /\ Ids(rows) # Ids(pre.rows)

\* the request in hand names a sheet that exists, is active and belongs to
\* the user and to the title of the request
TargetsOwnSheet ==
    /\ "sheet_id" \in DOMAIN request.data
    /\ request.data.sheet_id = sheet_id
    /\ sheet_id \in DOMAIN SheetTable
    /\ SheetTable[sheet_id].is_active
    /\ SheetTable[sheet_id].owner = request.user
    /\ SheetTable[sheet_id].template = request.title_id

\* C15 - Fatal request-level errors short-circuit before any mutation: a
\* batch is only ever under way, completed or rolled back for a request that
\* names an existing, active sheet of the requesting user and of the
\* requested title; a request without sheet_id is answered 400 and one whose
\* sheet is missing, inactive, of another user or of another title 404,
\* with no counts, and the step that rejects it (and the return of that
\* response) changes no row and no row_count of any sheet.
C15_FatalShortCircuit ==
    /\ [](pc \notin {"idle", "rejected"} => TargetsOwnSheet)
    /\ [](pc = "rejected" =>
            /\ ~TargetsOwnSheet
            /\ response = [status |-> IF "sheet_id" \in DOMAIN request.data
                                       THEN 404 ELSE 400])
    /\ [][(pc = "rejected" \/ pc' = "rejected")
            => (rows' = rows /\ row_count' = row_count)]_vars

\* a request for the sheet of another user, which holds a row, was rejected
C15_Witness ==
    /\ pc = "rejected"
    /\ response.status = 404
    /\ sheet_id \in DOMAIN SheetTable
    /\ SheetTable[sheet_id].owner # request.user
    /\ SheetRows(rows, sheet_id) # {}

\* C16 - All-or-nothing on storage failure: when a statement of any step
\* inside the atomic block fails, the rows, their positions and content and
\* the row_count of every sheet are what they were when the batch began;
\* the steps between never touch another sheet, and a batch that ends has
\* either been undone as a whole or applied as a whole.
C16_AllOrNothing ==
    /\ pc = "failed" =>
          /\ rows = pre.rows
          /\ row_count = pre.row_count
          /\ response = [status |-> 500]
    /\ pc = "done" =>
          /\ rows = RunBatch(pre.rows, pre.nextId, sheet_id, operations).rows
          /\ row_count[sheet_id] = Count(rows, sheet_id)
    /\ pc \in BatchSteps =>
          /\ {r \in rows : r.sheet # sheet_id} = {r \in pre.rows : r.sheet # sheet_id}
          /\ \A s \in Sheets : s # sheet_id => row_count[s] = pre.row_count[s]

\* a renumbering write failed after the batch had deleted a row and created
\* another, and the batch was undone
C16_Witness ==
    /\ pc = "failed"
    /\ integrity_error = "storage"
    /\ deleted_count > 0
    /\ inserted_count + appended_count > 0
    /\ needs_update # <<>>
    /\ SheetRows(rows, sheet_id) # {}

\* the ids the update items of the batch in hand name
UpdateIds == {operations.updates[i].id : i \in DOMAIN operations.updates}

\* the update items that name row id and carry field f
ItemsWith(id, f) ==
    {i \in DOMAIN operations.updates :
        operations.updates[i].id = id /\ f \in DOMAIN operations.updates[i]}

\* the value field f of row r has after the update step: that of the last
\* item carrying f, the stored one when no item carries it
UpdatedField(r, f) ==
    IF ItemsWith(r.id, f) = {} THEN r[f]
    ELSE LET last == CHOOSE i \in ItemsWith(r.id, f) : \A j \in ItemsWith(r.id, f) : j <= i
         IN  operations.updates[last][f]

\* the update step, taken from a state to the next: no row comes or goes,
\* every row keeps id, sheet, row_order and row_number, a row of the sheet
\* gets from the items naming it the fields they carry and keeps the others,
\* every other row keeps its content
UpdateStepFrame ==
    /\ Ids(rows') = Ids(rows)
    /\ \A r \in rows :
          \E q \in rows' :
              /\ q.id = r.id
              /\ q.sheet = r.sheet
              /\ q.row_order = r.row_order
              /\ q.row_number = r.row_number
              /\ \A f \in {"data", "styles", "height"} :
                    q[f] = IF r.sheet = sheet_id THEN UpdatedField(r, f) ELSE r[f]

\* C17 - The update step changes only the fields present in each update
\* item: across the step every row keeps its id and its position, a field
\* among data, styles and height that no item naming the row carries keeps
\* its stored value, and a row no update item names has the data, styles and
\* height it had before the batch at every step of the batch.
C17_UpdateFrame ==
    /\ [][pc = "updates" => UpdateStepFrame]_vars
    /\ [](pc \in BatchSteps \cup {"done"} =>
            \A r \in pre.rows, q \in rows :
                (q.id = r.id /\ r.id \notin UpdateIds) =>
                    /\ q.data = r.data
                    /\ q.styles = r.styles
                    /\ q.height = r.height)

\* a new-format batch completed whose only update item for some row carries
\* data alone: the row, which had styles and a height of its own, has the
\* new data
C17_Witness ==
    /\ pc = "done"
    /\ ~IsLegacy
    /\ \E r \in pre.rows, q \in rows :
          /\ q.id = r.id
          /\ ItemsWith(r.id, "data") # {}
          /\ ItemsWith(r.id, "styles") = {}
          /\ ItemsWith(r.id, "height") = {}
          /\ r.styles # EmptyDict
          /\ r.height # DefaultHeight
          /\ q.data # r.data
          /\ q.styles = r.styles
    /\ \E r \in pre.rows : r.id \notin UpdateIds /\ r.styles # EmptyDict

\* the place of a step in the processing order
Phase(step) ==
    CASE step = "deletions" -> 1
      [] step \in {"insertions", "shift", "create"} -> 2
      [] step = "updates" -> 3
      [] step \in {"appends", "append_create"} -> 4
      [] step \in {"renumber", "renumber_write"} -> 5
      [] step \in {"row_count", "done"} -> 6

\* the update items of the batch in hand that name a row it deletes
DeletedAndUpdated ==
    {i \in DOMAIN operations.updates : operations.updates[i].id \in KnownDeletions}

\* C18 - The processing order deletions, insertions, updates, appends,
\* renumbering is the order of every batch: a step is never followed by a
\* step of an earlier phase, the rows to delete are gone before any later
\* phase, every insertion is done before the updates, no update is applied
\* before the updates step and no row is appended before the append step.
\* When the id of a row of the sheet is in both deletions and updates, the
\* row is deleted, the update item is not counted in updated_count and an
\* error entry "Row not found for update" carries its id.
C18_ProcessingOrder ==
    /\ [][(pc \in BatchSteps /\ pc' \in BatchSteps \cup {"done"})
            => Phase(pc) <= Phase(pc')]_vars
    /\ [](pc \in BatchSteps \cup {"done"} =>
            /\ Phase(pc) >= 2 => Ids(rows) \cap KnownDeletions = {}
            /\ Phase(pc) = 1 => rows = pre.rows
            /\ Phase(pc) >= 3 => inserted_count = Len(operations.insertions)
            /\ Phase(pc) <= 3 => updated_count = 0
            /\ Phase(pc) <= 3 =>
                  Cardinality(Ids(rows) \ Ids(pre.rows)) = inserted_count
            /\ (Phase(pc) <= 4 /\ pc # "append_create") => appended_count = 0)
    /\ [](pc = "done" =>
            /\ rows = RunBatch(pre.rows, pre.nextId, sheet_id, operations).rows
            /\ DeletedAndUpdated \subseteq InvalidUpdates
            /\ response.updated_count
                  = Len(operations.updates) - Cardinality(InvalidUpdates)
            /\ \A i \in DeletedAndUpdated :
                  /\ operations.updates[i].id \notin Ids(rows)
                  /\ \E k \in DOMAIN response.errors :
                        response.errors[k] = [id |-> operations.updates[i].id,
                                              error |-> "Row not found for update"])

\* a batch that named a row of the sheet in deletions and in updates, and
\* updated another row, completed
C18_Witness ==
    /\ pc = "done"
    /\ DeletedAndUpdated # {}
    /\ response.updated_count > 0
    /\ response.deleted_count > 0

\* the write request p is about to issue: the row (0 for a new one) and the
\* position it gives it
PendingWrite(p) ==
    IF txn[p].pc = "append_create"
    THEN [id |-> 0, pos |-> NewOrder(txn[p].max_order, txn[p].app_idx + 1)]
    ELSE [id |-> Head(txn[p].needs_update).id, pos |-> Head(txn[p].needs_update).idx]

\* the rows of request p's sheet, other than the one it writes, that hold
\* the position of its pending write
Holders(p) ==
    {r \in SheetRows(View(p), txn[p].sheet_id) :
        r.row_order = PendingWrite(p).pos /\ r.id # PendingWrite(p).id}

\* C19 - Without serialization across requests a write of one batch can go
\* to a position another row of the collection already holds: with the
\* statements of two batches interleaved, a state is reachable in which the
\* next write of a batch (an appended row at max_order + idx, computed from
\* a maximum the other batch has outdated) targets a held position. Every
\* such write is due to the other request: the holder is a row that got its
\* position after the batch began, never one of the batch's own rows. The
\* unique constraint rejects the write and the batch is rolled back, so the
\* committed positions, and those each request reads, stay pairwise distinct.
C19_InterleavedWriters ==
    /\ \A s \in Sheets : DistinctPositions(rows, s)
    /\ \A p \in Procs :
          /\ Active(p) => DistinctPositions(View(p), txn[p].sheet_id)
          /\ (txn[p].pc \in {"append_create", "renumber_write"} /\ ~Waiting(p)) =>
                \A h \in Holders(p) :
                    /\ h \notin txn[p].written
                    /\ h \in rows
                    /\ ~\E r \in txn[p].began : r.id = h.id /\ r.row_order = h.row_order
          /\ txn[p].integrity_error \in {"append", "renumber"} =>
                /\ txn[p].pc = "failed"
                /\ txn[p].written = {}
                /\ txn[p].deleted = {}

\* two batches read the same maximum position and appended; one has
\* committed its row, the write of the other goes to the position of that row
C19_Witness ==
    \E p \in Procs :
        /\ txn[p].pc = "append_create"
        /\ txn[Other(p)].pc = "done"
        /\ txn[Other(p)].operations.appends # <<>>
        /\ txn[Other(p)].max_order = txn[p].max_order
        /\ txn[p].max_order > 0
        /\ Holders(p) # {}
        /\ WriteOutcome(p, 0, PendingWrite(p).pos) = "rejected"

\* C20 (as stated) - The transaction boundary alone is a sufficient locking
\* discipline: when two batches for one sheet run each in its own
\* transaction, reading committed data and taking no lock on the sheet, then
\* once both have committed the positions of the sheet are exactly 1..N and
\* its row_count is its number of rows.
C20_TransactionsSuffice ==
    (\A p \in Procs : txn[p].pc = "done") =>
        \A s \in Sheets :
            /\ Contiguous(rows, s)
            /\ row_count[s] = Count(rows, s)

\* ------------------------------------------------------------------ C21
\* row_number of every row of the sheet equals its row_order
InLockstep(R, s) == \A r \in SheetRows(R, s) : r.row_number = r.row_order

\* C21: the deprecated row_number moves in lockstep with the position: after
\* a completed PATCH batch every row of the sheet has row_number equal to
\* its row_order, rows shifted by an insertion included.
C21_RowNumberLockstep ==
    pc = "done" => InLockstep(rows, sheet_id)

\* ------------------------------------------- the other row endpoints
\* default of the row_order column
DefaultRowOrder == 1

\* ActivitySheetRow.save(): row_number is set to row_order before the write
SaveRow(row) ==
    IF row.row_number # row.row_order THEN [row EXCEPT !.row_number = row.row_order]
    ELSE row

\* the items of a bulk-create request (ActivitySheetRowCreateSerializer)
BulkCreateItems == [row_number : 1..MaxRowNumber, data : Data]

\* BulkRowCreateSerializer.create, the loop inside transaction.atomic():
\* objects.create(sheet=sheet, **row_data) leaves row_order at its default;
\* an INSERT the unique constraint rejects raises inside save(), which marks
\* the transaction for rollback, and the except clause records the error;
\* every later statement of the block raises as well
RECURSIVE BulkCreateLoop(_, _, _)
BulkCreateLoop(st, s, rows_data) ==
    IF rows_data = <<>> THEN st
    ELSE LET row_data == Head(rows_data)
             id == NewId(st.nextId, st.rows)
             row == SaveRow(NewRow(id, s, DefaultRowOrder, row_data.row_number, row_data))
             failed == [st EXCEPT !.needs_rollback = TRUE,
                                  !.errors = Append(@, [row_number |-> row_data.row_number])]
         IN  IF st.needs_rollback \/ Conflicts(st.rows, s, 0, row.row_order)
             THEN BulkCreateLoop(failed, s, Tail(rows_data))
             ELSE BulkCreateLoop([st EXCEPT !.rows = @ \cup {row},
                                            !.created = Append(@, id),
                                            !.nextId = @ + 1],
                                 s, Tail(rows_data))

\* SheetRowBulkView.post: the loop, the end of the atomic block (a block
\* marked for rollback is rolled back as a whole), sheet.update_row_count()
\* and the response
BulkCreate ==
    /\ pc = "idle"
    /\ \E s \in Sheets, n \in 1..MaxBulk :
         \E rows_data \in Lists(BulkCreateItems, n) :
            LET st == BulkCreateLoop([rows |-> rows, nextId |-> nextId, created |-> <<>>,
                                      errors |-> <<>>, needs_rollback |-> FALSE],
                                     s, rows_data)
                stored == IF st.needs_rollback THEN rows ELSE st.rows
            IN  /\ st.nextId <= MaxId + 1
                /\ request' = [user |-> SheetTable[s].owner, title_id |-> 0,
                               data |-> [sheet_id |-> s, rows |-> rows_data]]
                /\ sheet_id' = s
                /\ rows' = stored
                /\ row_count' = [row_count EXCEPT ![s] = Count(stored, s)]
                /\ nextId' = st.nextId
                /\ used_ids' = used_ids \cup Range(st.created)
                /\ response' = [status |-> IF st.errors = <<>> THEN 201 ELSE 207,
                                op |-> "bulk_create",
                                created_count |-> Len(st.created),
                                errors |-> st.errors]
    /\ pre' = [rows |-> rows, row_count |-> row_count, used_ids |-> used_ids,
               nextId |-> nextId]
    /\ pc' = "answered"
    /\ UNCHANGED <<operations, insertions_sorted, rows_to_shift, max_order, app_idx,
                   needs_update, updated_count, inserted_count, deleted_count,
                   appended_count, errors, integrity_error, txn, catalog>>

\* BulkRowDeleteSerializer.delete: the rows of the sheet with an id in
\* row_ids, then those with a row_number in row_numbers; no renumbering
BulkDelete ==
    /\ pc = "idle"
    /\ \E s \in Sheets, ni \in 0..MaxBulk, nn \in 0..MaxBulk :
         /\ ni + nn \in 1..MaxBulk
         /\ \E row_ids \in Lists(RequestIds, ni), row_numbers \in Lists(1..MaxRowNumber, nn) :
              LET by_id == {r \in SheetRows(rows, s) : r.id \in Range(row_ids)}
                  left == rows \ by_id
                  by_number == {r \in SheetRows(left, s) : r.row_number \in Range(row_numbers)}
                  stored == left \ by_number
              IN  /\ request' = [user |-> SheetTable[s].owner, title_id |-> 0,
                                 data |-> [sheet_id |-> s, row_ids |-> row_ids,
                                           row_numbers |-> row_numbers]]
                  /\ sheet_id' = s
                  /\ rows' = stored
                  /\ row_count' = [row_count EXCEPT ![s] = Count(stored, s)]
                  /\ response' = [status |-> 200, op |-> "bulk_delete",
                                  deleted_count |-> Cardinality(by_id) + Cardinality(by_number)]
    /\ pre' = [rows |-> rows, row_count |-> row_count, used_ids |-> used_ids,
               nextId |-> nextId]
    /\ pc' = "answered"
    /\ UNCHANGED <<nextId, used_ids, operations, insertions_sorted, rows_to_shift,
                   max_order, app_idx, needs_update, updated_count, inserted_count,
                   deleted_count, appended_count, errors, integrity_error, txn, catalog>>

\* UserTitleDataView.post, FULL REPLACE: the rows of the sheet are deleted,
\* the rows of the request are created at positions 1, 2, ..., row_count
\* is set to their number
PostReplace ==
    /\ pc = "idle"
    /\ \E u \in {"u1", "u2"}, s \in Sheets, n \in 0..MaxBulk :
         /\ SheetFound(1, u, s)
         /\ nextId + n <= MaxId + 1
         /\ \E rows_data \in Lists(AppendItems, n) :
              LET kept == rows \ SheetRows(rows, s)
                  new_rows == {NewRow(nextId + idx - 1, s, idx, idx, rows_data[idx]) :
                                 idx \in 1..n}
              IN  /\ request' = [user |-> u, title_id |-> 1,
                                 data |-> [sheet_id |-> s, rows |-> rows_data]]
                  /\ sheet_id' = s
                  /\ rows' = kept \cup new_rows
                  /\ row_count' = [row_count EXCEPT ![s] = n]
                  /\ nextId' = nextId + n
                  /\ used_ids' = used_ids \cup Ids(new_rows)
                  /\ response' = [status |-> 200, op |-> "replace", row_count |-> n]
    /\ pre' = [rows |-> rows, row_count |-> row_count, used_ids |-> used_ids,
               nextId |-> nextId]
    /\ pc' = "answered"
    /\ UNCHANGED <<operations, insertions_sorted, rows_to_shift, max_order, app_idx,
                   needs_update, updated_count, inserted_count, deleted_count,
                   appended_count, errors, integrity_error, txn, catalog>>

\* the row endpoints next to the PATCH batch: single-row create and delete,
\* bulk create, bulk delete and full replace
NextRows ==
    \/ CreateRow
    \/ DeleteRow
    \/ BulkCreate
    \/ BulkDelete
    \/ PostReplace
    \/ Respond

SpecRows == Init /\ [][NextRows]_vars

\* ------------------------------------------------------------------ C22
\* C22: contiguity after every completed row-mutating operation: after a
\* bulk delete, a single-row delete, a bulk or single-row create or a full
\* replace, the positions of every sheet are exactly 1..N.
C22_ContiguityAllOperations ==
    \A s \in Sheets : Contiguous(rows, s)

\* ------------------------------------------------------------------ C23
\* C23: row numbers are unique per sheet: in every state the store is left
\* in by a request (no batch in progress) no two rows of one sheet have the
\* same row_number.
C23_UniqueRowNumbers ==
    pc \in {"idle", "done", "failed", "rejected"} =>
        \A s \in Sheets :
            \A r1, r2 \in SheetRows(rows, s) :
                r1.row_number = r2.row_number => r1.id = r2.id

\* ------------------------------------------------------------------ C24
\* the row_numbers of the bulk-create request in hand
RequestedNumbers == {request.data.rows[i].row_number : i \in DOMAIN request.data.rows}

\* C24: a bulk-create request with k rows of pairwise distinct row_numbers,
\* sent to a sheet that has no rows at those numbers, creates all k rows,
\* reports created_count = k and no errors and raises row_count by k.
C24_BulkCreateAll ==
    (/\ pc = "answered"
     /\ response.op = "bulk_create"
     /\ Cardinality(RequestedNumbers) = Len(request.data.rows)
     /\ \A r \in SheetRows(pre.rows, sheet_id) : r.row_number \notin RequestedNumbers)
        => /\ response.created_count = Len(request.data.rows)
           /\ response.errors = <<>>
           /\ Count(rows, sheet_id) = Count(pre.rows, sheet_id) + Len(request.data.rows)
           /\ row_count[sheet_id] = pre.row_count[sheet_id] + Len(request.data.rows)

\* ------------------------------------------- templates and their sheets
\* TemplateDetailView.destroy and the creation of a sheet from a template,
\* one request of each kind in flight, every query and write a step. Neither
\* handler opens a transaction around its statements or locks the template.

\* template.sheets: the sheets whose template is t
SheetsOf(c, t) == {s \in DOMAIN c.sheets : c.sheets[s] = t}

\* ActivityTemplate.can_delete(): not self.sheets.exists()
CanDelete(c, t) == SheetsOf(c, t) = {}

\* destroy: instance = self.get_object()
DestroyGetObject ==
    /\ catalog.destroy.pc = "idle"
    /\ \E t \in TitleIds :
         /\ catalog.templates[t].exists
         /\ catalog' = [catalog EXCEPT !.destroy = [pc |-> "got", template |-> t,
                                                    collected |-> {}]]
    /\ UNCHANGED <<dbvars, pc, locals, results, pre, txn>>

\* destroy: if instance.can_delete()
DestroyCanDelete ==
    /\ catalog.destroy.pc = "got"
    /\ catalog' = [catalog EXCEPT !.destroy.pc =
                      IF CanDelete(catalog, catalog.destroy.template) THEN "delete"
                      ELSE "archive"]
    /\ UNCHANGED <<dbvars, pc, locals, results, pre, txn>>

\* instance.archive(): status archived, is_deleted set, the row is saved
DestroyArchive ==
    /\ catalog.destroy.pc = "archive"
    /\ catalog' = [catalog EXCEPT
                      !.templates[catalog.destroy.template] =
                          [exists |-> TRUE, status |-> "archived", is_deleted |-> TRUE],
                      !.destroy = NoDestroy]
    /\ UNCHANGED <<dbvars, pc, locals, results, pre, txn>>

\* instance.delete(), first half: the sheets that refer to the template
\* are collected (on_delete=SET_NULL)
DestroyCollect ==
    /\ catalog.destroy.pc = "delete"
    /\ catalog' = [catalog EXCEPT
                      !.destroy.pc = "collected",
                      !.destroy.collected = SheetsOf(catalog, catalog.destroy.template)]
    /\ UNCHANGED <<dbvars, pc, locals, results, pre, txn>>

\* instance.delete(), second half: the template of the collected sheets is
\* set to NULL and the template row is deleted; a sheet that refers to the
\* template and was not collected makes the foreign key reject the delete
DestroyDelete ==
    /\ catalog.destroy.pc = "collected"
    /\ LET t == catalog.destroy.template
           collected == catalog.destroy.collected
       IN  IF SheetsOf(catalog, t) \subseteq collected
           THEN catalog' = [catalog EXCEPT
                              !.sheets = [s \in DOMAIN catalog.sheets |->
                                            IF s \in collected THEN 0 ELSE catalog.sheets[s]],
                              !.templates[t].exists = FALSE,
                              !.destroy = NoDestroy]
           ELSE catalog' = [catalog EXCEPT !.destroy = NoDestroy]
    /\ UNCHANGED <<dbvars, pc, locals, results, pre, txn>>

\* sheet creation: get_object_or_404(ActivityTemplate, pk=title_id,
\*                                   status='published', is_deleted=False)
CreateSheetFindTemplate ==
    /\ catalog.create.pc = "idle"
    /\ Cardinality(DOMAIN catalog.sheets) < MaxSheetId
    /\ \E t \in TitleIds :
         /\ catalog.templates[t].exists
         /\ catalog.templates[t].status = "published"
         /\ ~catalog.templates[t].is_deleted
         /\ catalog' = [catalog EXCEPT !.create = [pc |-> "found", template |-> t]]
    /\ UNCHANGED <<dbvars, pc, locals, results, pre, txn>>

\* sheet creation: ActivitySheet.objects.create(template=template, ...); the
\* foreign key rejects the row when the template is gone
CreateSheet ==
    /\ catalog.create.pc = "found"
    /\ LET t == catalog.create.template
           id == Cardinality(DOMAIN catalog.sheets) + 1
       IN  IF catalog.templates[t].exists
           THEN catalog' = [catalog EXCEPT
                              !.sheets = [s \in DOMAIN catalog.sheets \cup {id} |->
                                            IF s = id THEN t ELSE catalog.sheets[s]],
                              !.create = NoCreate]
           ELSE catalog' = [catalog EXCEPT !.create = NoCreate]
    /\ UNCHANGED <<dbvars, pc, locals, results, pre, txn>>

NextTemplates ==
    \/ DestroyGetObject
    \/ DestroyCanDelete
    \/ DestroyArchive
    \/ DestroyCollect
    \/ DestroyDelete
    \/ CreateSheetFindTemplate
    \/ CreateSheet

SpecTemplates == Init /\ [][NextTemplates]_vars

\* ------------------------------------------------------------------ C25
\* C25: templates with sheets are never hard-deleted: under any interleaving
\* of sheet creations and template destroys, no sheet loses its template
\* through destroy: the template of every sheet is set and still stored.
C25_NeverHardDeleted ==
    \A s \in DOMAIN catalog.sheets :
        /\ catalog.sheets[s] # 0
        /\ catalog.templates[catalog.sheets[s]].exists

\* ------------------------------------------------------------------ C26
\* any two rows of sheet s stored in both R1 and R2 are in the same order
\* by position in R2 as in R1
SameOrder(R1, R2, s) ==
    \A r1, r2 \in SheetRows(R1, s) :
        \A q1, q2 \in SheetRows(R2, s) :
            (q1.id = r1.id /\ q2.id = r2.id /\ r1.row_order < r2.row_order)
                => q1.row_order < q2.row_order

\* C26: relative order is preserved: two rows that were in the sheet before
\* the batch and both survive it are in the same order by position after
\* the batch as before it, and no step of a batch (shift, insertion, append,
\* renumbering write) swaps two rows of the sheet.
C26_RelativeOrder ==
    /\ [](pc = "done" => SameOrder(pre.rows, rows, sheet_id))
    /\ [][(pc \in BatchSteps) => SameOrder(rows, rows', sheet_id)]_vars

\* a batch that inserted a row completed with two of the former rows still
\* in the sheet, one of them at another position than before
C26_Witness ==
    /\ pc = "done"
    /\ inserted_count > 0
    /\ Cardinality(Survivors) >= 2
    /\ \E r \in Survivors : RowOf(r.id).row_order # r.row_order

\* ------------------------------------------------------------------ C27
\* C27: count conservation: a completed batch on a sheet that had N0 rows
\* returns row_count = N0 - deleted_count + inserted_count + created_count,
\* inserted_count being the number of insertion items, created_count the
\* number of append items and deleted_count the number of distinct ids in
\* deletions that were rows of the sheet.
C27_CountConservation ==
    pc = "done" =>
        /\ response.inserted_count = Len(operations.insertions)
        /\ response.created_count = Len(operations.appends)
        /\ response.deleted_count = Cardinality(KnownDeletions)
        /\ response.row_count = Cardinality(PreIds) - response.deleted_count
                                   + response.inserted_count + response.created_count

\* a batch that named one row twice in deletions and created a row
\* completed, while the other sheet held rows of its own
C27_Witness ==
    /\ pc = "done"
    /\ Len(operations.deletions) > Cardinality(Range(operations.deletions))
    /\ deleted_count > 0
    /\ inserted_count + appended_count > 0
    /\ \E r \in rows : r.sheet # sheet_id

\* ------------------------------------------------------------------ C28
\* the place of insertion item i in the order of application: ascending
\* position, equal positions in input order
AppliedRank(i) ==
    Cardinality({k \in DOMAIN operations.insertions :
                    \/ operations.insertions[k].insert_at_order
                          < operations.insertions[i].insert_at_order
                    \/ /\ operations.insertions[k].insert_at_order
                            = operations.insertions[i].insert_at_order
                       /\ k < i}) + 1

\* the id of the row created for insertion item i
InsertedId(i) == pre.nextId + AppliedRank(i) - 1

\* items i < j of insertions name the same position, no item between them
\* does
NextTie(i, j) ==
    /\ i < j
    /\ operations.insertions[i].insert_at_order = operations.insertions[j].insert_at_order
    /\ \A k \in DOMAIN operations.insertions :
          (i < k /\ k < j) => operations.insertions[k].insert_at_order
                                 # operations.insertions[i].insert_at_order

DeletedRows == {r \in SheetRows(pre.rows, sheet_id) : r.id \in KnownDeletions}

\* the batch in hand found the sheet at positions 1..N and holds one
\* insertion, at a position within [1, N + 1]
SingleInsertion ==
    /\ Contiguous(pre.rows, sheet_id)
    /\ Len(operations.insertions) = 1
    /\ operations.insertions[1].insert_at_order <= Cardinality(PreIds) + 1

\* C29: insert positions are read against the positions the deletion step
\* left, before any renumbering: on a sheet at positions 1..N, with valid
\* deletions D and one insertion at P in [1, N+1], the new row ends at P
\* minus the number of deleted rows whose former position was below P,
\* immediately before the first surviving row formerly at P or after.
C29_InsertAfterDeletions ==
    (pc = "done" /\ SingleInsertion) =>
        LET P == operations.insertions[1].insert_at_order
            below == {r \in DeletedRows : r.row_order < P}
            after == {r \in Survivors : r.row_order >= P}
        IN  \E new \in SheetRows(rows, sheet_id) :
                /\ new.id = pre.nextId
                /\ new.id \notin Ids(pre.rows)
                /\ new.row_order = P - Cardinality(below)
                /\ \A r \in after :
                      (\A q \in after : r.row_order <= q.row_order)
                          => RowOf(r.id).row_order = new.row_order + 1

\* such a batch completed after deleting a row below the insert position
\* and keeping a row at or after it
C29_Witness ==
    /\ pc = "done"
    /\ SingleInsertion
    /\ \E r \in DeletedRows : r.row_order < operations.insertions[1].insert_at_order
    /\ \E r \in Survivors : r.row_order >= operations.insertions[1].insert_at_order

\* ------------------------------------------------------------------ C30
\* the insertions of the batch in hand in the order they are applied
SortedInsertions == SortInsertions(operations.insertions)

\* the store as the k-th insertion applied finds it: the rows the deletion
\* step left and the insertions applied before it
BeforeInsertion(k) ==
    ApplyInsertions([ok |-> TRUE,
                     rows |-> {r \in pre.rows : r.id \notin KnownDeletions},
                     nextId |-> pre.nextId],
                    sheet_id, SubSeq(SortedInsertions, 1, k - 1)).rows

\* the k-th insertion applied names a position beyond the largest position
\* of the sheet plus one
OutOfRange(k) ==
    SortedInsertions[k].insert_at_order > MaxOrder(BeforeInsertion(k), sheet_id) + 1

\* C30: out-of-range insert positions are not rejected: an insertion at a
\* position greater than the current maximum position plus one records no
\* error, is counted in inserted_count and creates its row; after the batch
\* the row sits after every row that was in the sheet before and before
\* every appended row, and the positions are exactly 1..N.
C30_OutOfRangeInsertion ==
    pc = "done" =>
        \A k \in 1..Len(SortedInsertions) :
            OutOfRange(k) =>
                /\ response.inserted_count = Len(operations.insertions)
                /\ Len(response.errors)
                      = Cardinality(Range(operations.deletions) \ PreIds)
                          + Cardinality(InvalidUpdates)
                /\ \A i \in DOMAIN response.errors :
                      response.errors[i].error \in {"Row ID not found",
                                                    "Row not found for update"}
                /\ Contiguous(rows, sheet_id)
                /\ \E new \in SheetRows(rows, sheet_id) :
                      /\ new.id = pre.nextId + k - 1
                      /\ new.id \notin Ids(pre.rows)
                      /\ \A r \in Survivors : RowOf(r.id).row_order < new.row_order
                      /\ \A j \in 1..Len(operations.appends) :
                            RowOf(AppendedId(j)).row_order > new.row_order

\* a batch with an out-of-range insertion and an append completed on a
\* sheet that kept a row
C30_Witness ==
    /\ pc = "done"
    /\ \E k \in 1..Len(SortedInsertions) : OutOfRange(k)
    /\ Survivors # {}
    /\ operations.appends # <<>>
====
